---------------------------- MODULE Spec2Model ----------------------------
(***************************************************************************)
(* Verification model of hoover (speech capture and transcription).        *)
(*                                                                         *)
(*  OrdSpec   net/protocol.rs  PacketOrderer (insert, drop_oldest)         *)
(*  PipeSpec  recording.rs, audio/mod.rs, audio/capture.rs: the record     *)
(*            pipeline (device callback, audio thread, main task, STT      *)
(*            worker) and its shutdown                                     *)
(*  AccSpec   audio/buffer.rs  ChunkAccumulator (new, feed, flush) and     *)
(*            AudioChunk::from_samples                                     *)
(*  ConvSpec  audio/buffer.rs  AudioChunk::from_samples on its own         *)
(*  CodecSpec net/protocol.rs, net/crypto.rs  encode_packet, decode_packet,*)
(*            CryptoContext                                                *)
(*  ChunkSpec the two producers of AudioChunks, one at a time              *)
(*  DedupSpec, WriterSpec  output/markdown.rs  MarkdownWriter              *)
(*  UdpSpec   net/server.rs  UdpServer (run, handle_packet,                *)
(*            process_message, flush_audio_buffer)                         *)
(*  WireSpec  CodecSpec with datagrams altered in transit                  *)
(*  ReplaySpec UdpSpec with datagrams delivered a second time              *)
(*  ResumeSpec net/client.rs  run_sender, against the UdpServer            *)
(*  ConfigSpec audio/mod.rs  ChunkAccumulator as the configuration sets it *)
(*  IdentifySpec, SaveSpec  speaker/identify.rs  SpeakerIdentifier         *)
(*  TxSpec    stt/  the transcribe of the three backends                   *)
(***************************************************************************)
EXTENDS Integers, Sequences, FiniteSets, TLC

(***************************************************************************)
(* Bounds of the model.                                                    *)
(***************************************************************************)
\* Largest value of the serial type.  The source type is u64; the model
\* keeps the type's shape (a finite range whose top value has no successor)
\* at a width TLC can enumerate.
U64_MAX == 6
\* Largest backlog bound B tried (PacketOrderer::new takes any usize).
MaxBacklog == 3
\* Number of insert calls in one run of the orderer.
MaxInserts == 5
\* Channel capacities of the record pipeline.  The source values are 64
\* (raw samples, capture.rs:51), 32 (chunks, recording.rs:14), 16 (STT
\* input, recording.rs:49) and 16 (segments, recording.rs:51); the model
\* keeps the topology and the blocking rules at capacities TLC can fill.
RawCap == 2
ChunkCap == 2
SttCap == 1
ResCap == 1
\* Number of chunks the audio thread creates in one run.
MaxChunks == 4
\* Most chunks one ChunkAccumulator::feed call returns.
MaxFeed == 2
\* Number of segments of a non-empty transcribe result.
MaxSegs == 2
\* Samples per second.  The source value is 16000 (buffer.rs:3, and the
\* literal of server.rs:131); the model keeps every size a multiple of it.
SAMPLE_RATE == 2
\* Largest chunk_duration_secs tried (ChunkAccumulator::new takes any u64).
MaxSecs == 2
\* Longest slice passed to one feed call, and the number of samples fed in
\* one run.
MaxFeedLen == 3
MaxFed == 8
\* Readings of the wall clock lie in 0..MaxClock.
MaxClock == 2
\* f32 values are modelled as multiples of 1/F32_DEN in [-F32_TOP, F32_TOP]
\* quarters.  Multiples of 1/4 and their products with 32767 are exact in
\* f32, so the arithmetic of the model is the arithmetic of the code.
F32_DEN == 4
F32_TOP == 6
\* i16::MAX
I16_MAX == 32767
\* Keys are [b; 32] for b in 1..MaxKeys; message data has at most MaxData
\* bytes.
MaxKeys == 2
MaxData == 1
\* Datagrams carry serials 0..MaxSerial (below the top of the serial type)
\* and audio of at most MaxBody samples; the receiver's backlog bound is at
\* most MaxUdpBacklog.
MaxSerial == 1
MaxBody == 3
MaxUdpBacklog == 1
\* Texts handed to deduplicate_overlap have at most MaxText characters and
\* the stored trailing words are at most MaxTrail; a writer takes at most
\* MaxCalls write_segment calls.
MaxText == 5
MaxTrail == 2
MaxCalls == 3
\* Largest audio payload of one datagram of the sender, in bytes.  The
\* source value is 1400 (client.rs:13), a fraction of the 16000 samples of a
\* chunk; the model keeps it at one sample.  The sender reads at most
\* MaxFile bytes of audio and is run at most MaxRuns times.
MAX_PAYLOAD_SIZE == 2
\* Largest value of usize.  The source type has 64 bits on the supported
\* targets; the model keeps a range far above every length it builds.
USIZE_MAX == 255
MaxFile == 3
MaxRuns == 2
\* write_segment keeps the last 20 words (markdown.rs:92).
TRAILING_WORDS == 20
\* An identifier holds at most MaxProfiles enrolled profiles and takes at
\* most MaxIdentify identify calls in a run.
MaxProfiles == 2
MaxIdentify == 11
\* Profiles are saved every 10 updates (identify.rs:21).
SAVE_INTERVAL == 10
\* Scores and confidences are in hundredths: 0.85 (identify.rs:18).
EMA_UPDATE_THRESHOLD == 85
\* f32::NAN and f32::NEG_INFINITY as values outside the range of scores.
NaN == 999
NEG_INFINITY == 0 - 1000
\* A recogniser answers texts of at most MaxHeard characters, in at most
\* MaxWords segments or words.
MaxHeard == 2
MaxWords == 2
\* no_speech probabilities are in hundredths: 0.6 (whisper.rs:12).
NO_SPEECH_THRESHOLD == 60

VARIABLES
    \* ---- PacketOrderer (net/protocol.rs:121-125)
    expected_serial,   \* u64
    buffer,            \* BTreeMap<u64, DecodedMessage>: function serial -> message
    backlog,           \* usize
    \* ---- the build and the call history of the orderer
    overflow_checks,   \* TRUE: arithmetic overflow panics; FALSE: it wraps
    panicked,          \* an insert call panicked (the owner task is gone)
    ninserts,          \* number of insert calls made
    lastMsg,           \* argument of the last insert call
    lastRet,           \* list returned by the last insert call
    prevExpected,      \* expected_serial when the last call started
    prevBuffer,        \* buffer when the last call started
    emitted,           \* concatenation of all returned lists
    inserted,          \* serials passed to insert so far
    skipped,           \* serials passed over by drop_oldest
    \* ---- record pipeline: capture (audio/capture.rs)
    stream_alive,      \* the AudioCapture (cpal stream, raw sender) exists
    raw,               \* crossbeam bounded::<Vec<f32>>(64)
    cbTick,            \* flips at every device callback
    \* ---- audio pipeline thread (audio/mod.rs:29-83)
    audioPc,           \* "init" | "recv" | "send" | "flush" | "flush_send" | "done"
    audioPending,      \* chunks of the current feed / flush not yet sent
    udp_alive,         \* the UDP server task holds a clone of chunk_tx
    \* ---- run_recording (recording.rs)
    chunks,            \* mpsc::channel::<AudioChunk>(32)
    stt,               \* mpsc::channel::<AudioChunk>(16)
    results,           \* mpsc::channel::<(Vec<Segment>, Option<String>)>(16)
    mainPc,            \* "select" | "stt_send" | "shutdown" | "drain_chunks"
                       \* | "drain_send" | "drain_results" | "returned"
    mainHeld,          \* the chunk the main task is sending (0: none)
    sttPc,             \* "init" | "failed" | "recv" | "send" | "exited"
    sttHeld,           \* the bundle the STT worker is sending
    shutdown_sig,      \* Ctrl+C was received (shutdown_tx.send(()))
    \* ---- history of the pipeline
    nextChunk,         \* id of the next chunk the accumulator creates
    entered,           \* chunk ids in the order they entered `chunks`
    taken,             \* chunk ids in the order the main task received them
    transcribed,       \* chunk ids in the order engine.transcribe got them
    produced,          \* chunk ids of the bundles the worker produced
    received,          \* chunk ids of the bundles the writer loop received
    written,           \* write_segment calls, in order, for the last bundle
    \* ---- ChunkAccumulator (audio/buffer.rs:36-41)
    wall_clock,        \* the last reading of Utc::now()
    acc_buffer,        \* buffer: Vec<f32>
    chunk_samples,     \* usize
    overlap_samples,   \* usize
    chunk_start,       \* DateTime<Utc>
    \* ---- the call history of the accumulator
    acc_op,            \* last call: "none" | "new" | "feed" | "flush"
    acc_ret,           \* chunks returned by the last call
    acc_ret_at,        \* for each of them, when its first sample was appended
    acc_prev,          \* <<the last chunk returned before the last call>>
    acc_prev_op,       \* the call that returned it
    acc_at,            \* for each buffered sample, the clock when it was appended
    total_fed,         \* samples passed to feed so far
    n_chunks,          \* chunks returned by feed so far
    flushed,           \* flush was called
    \* ---- CryptoContext (net/crypto.rs:10-13) and one packet
    ctx,               \* the context: [cipher, key_bytes]
    pkt,               \* the last packet encode_packet returned
    packet_of,         \* <<the (serial, type, data) it was given>>
    packet_key,        \* key_bytes of the context when it sealed the packet
    decoded,           \* <<the result of the last decode_packet call>>
    decoded_key,       \* key_bytes of the context in that call
    rekeyed,           \* update_key was called
    \* ---- one call of AudioChunk::from_samples (audio/buffer.rs:15)
    conv_in,           \* samples: &[f32]
    conv_out,          \* <<the chunk returned>>
    \* ---- UdpServer (net/server.rs:16-23)
    udp_pc,            \* "off" | "recv" | "panicked" | "done"
    in_runtime,        \* run is polled by a worker of the runtime
    udp_crypto,        \* crypto: the CryptoContext behind the mutex
    udp_expected,      \* orderer.expected_serial
    udp_buffer,        \* orderer.buffer
    udp_backlog,       \* orderer.backlog
    firewall,          \* a FirewallManager is configured
    audio_buffer,      \* Vec<i16>: the carryover
    sink_open,         \* the receiver of chunk_tx exists
    \* ---- the last step of the server
    udp_op,            \* "bind" | "packet" | "cancel"
    udp_kind,          \* what the datagram was: "none" | "undecodable"
                       \* | "passphrase" | "eos" | "ordered"
    udp_samples,       \* samples of the messages passed to process_message
    udp_built,         \* chunks built
    udp_sent,          \* chunks that entered the channel
    udp_ack,           \* <<the ack sent back>>
    udp_request,       \* <<the PassphraseChangeRequest that was handled>>
    udp_sealed_with,   \* <<the key the sender sealed the datagram with>>
    udp_blocked,       \* block_ip was called
    \* ---- the network in front of the server, and `hoover send`
    \* (net/client.rs:16-66)
    udp_kept,          \* <<a datagram the server handled, kept by a listener>>
    snd_pc,            \* "idle" | "audio" | "eos" | "done"
    snd_serial,        \* serial: u64
    snd_data,          \* the bytes of audio_data not yet sent
    snd_runs,          \* number of run_sender calls so far
    \* ---- MarkdownWriter (output/markdown.rs:13-21) and the output directory
    files,             \* date |-> <<>> (no file) or <<the daily file's content>>
    timestamps,        \* bool
    current_date,      \* Option<NaiveDate>
    last_time,         \* Option<String>
    last_trailing_words, \* Vec<String>
    \* ---- the last call on the writer
    md_op,             \* "none" | "new" | "write" | "dedup"
    md_segment,        \* <<the segment and speaker passed to write_segment>>
    md_text,           \* <<what deduplicate_overlap returned>>
    md_entry,          \* the entry write_segment built
    md_result,         \* "ok" | "err"
    headed,            \* Option<String>: the minute of the last heading that
                       \* reached a file since the date last changed
    md_calls,          \* number of write_segment calls so far
    \* ---- SpeakerIdentifier (speaker/identify.rs:30-37)
    profiles,          \* Vec<SpeakerProfile>: <<[name, embedding]>>, the
                       \* embedding as the number of updates of the enrolled one
    min_confidence,    \* f32, in hundredths
    filter_unknown,    \* bool
    updates_since_save, \* u32
    profiles_dir,      \* the embedding each profile's file holds
    \* ---- the last call on the identifier
    sp_op,             \* "none" | "new" | "identify" | "flush"
    sp_samples,        \* samples.len() of the call
    sp_embeddings,     \* what extract_embedding returned, call by call
    sp_result,         \* what identify returned
    sp_before,         \* profiles when the call started
    sp_calls,          \* number of identify calls so far
    \* ---- SttEngine::transcribe (stt/whisper.rs, stt/vosk.rs, stt/openai.rs)
    tx_op,             \* "none" | "transcribe"
    tx_backend,        \* "whisper" | "vosk" | "openai"
    tx_heard,          \* what the recogniser or the service answered
    tx_segments        \* Result<Vec<TranscriptionSegment>>: the texts

ordVars == <<expected_serial, buffer, backlog, overflow_checks, panicked,
             ninserts, lastMsg, lastRet, prevExpected, prevBuffer, emitted,
             inserted, skipped>>

pipeVars == <<stream_alive, raw, cbTick, audioPc, audioPending, udp_alive,
              chunks, stt, results, mainPc, mainHeld, sttPc, sttHeld,
              shutdown_sig, nextChunk, entered, taken, transcribed, produced,
              received, written>>

accVars == <<wall_clock, acc_buffer, chunk_samples, overlap_samples, chunk_start, acc_op,
             acc_ret, acc_ret_at, acc_prev, acc_prev_op, acc_at,
             total_fed, n_chunks, flushed>>

\* The components that are modelled on their own.
codecVars == <<ctx, pkt, packet_of, packet_key, decoded, decoded_key,
               rekeyed>>

convVars == <<conv_in, conv_out>>

srvVars == <<udp_pc, in_runtime, udp_crypto, udp_expected, udp_buffer,
             udp_backlog, firewall, audio_buffer, sink_open, udp_op,
             udp_kind, udp_samples, udp_built, udp_sent, udp_ack, udp_request,
             udp_sealed_with, udp_blocked>>

netVars == <<udp_kept, snd_pc, snd_serial, snd_data, snd_runs>>

udpVars == <<srvVars, netVars>>

mdVars == <<files, timestamps, current_date, last_time, last_trailing_words,
            md_op, md_segment, md_text, md_entry, md_result, headed,
            md_calls>>

spkVars == <<profiles, min_confidence, filter_unknown, updates_since_save,
             profiles_dir, sp_op, sp_samples, sp_embeddings, sp_result,
             sp_before, sp_calls>>

txVars == <<tx_op, tx_backend, tx_heard, tx_segments>>

unitVars == <<accVars, codecVars, convVars, udpVars, mdVars, spkVars, txVars>>

\* What the steps of one component leave alone.
exceptAcc == <<ordVars, pipeVars, codecVars, convVars, udpVars,
              mdVars, spkVars, txVars>>

exceptCodec == <<ordVars, pipeVars, accVars, convVars, udpVars,
              mdVars, spkVars, txVars>>

exceptConv == <<ordVars, pipeVars, accVars, codecVars, udpVars,
              mdVars, spkVars, txVars>>

exceptUdp == <<ordVars, pipeVars, accVars, codecVars, convVars,
              mdVars, spkVars, txVars>>

exceptMd == <<ordVars, pipeVars, accVars, codecVars, convVars, udpVars,
             spkVars, txVars>>

exceptSpk == <<ordVars, pipeVars, accVars, codecVars, convVars, udpVars,
              mdVars, txVars>>

exceptTx == <<ordVars, pipeVars, accVars, codecVars, convVars, udpVars,
             mdVars, spkVars>>

vars == <<ordVars, pipeVars, unitVars>>

(***************************************************************************)
(* Helpers                                                                 *)
(***************************************************************************)
Serials == 0..U64_MAX

EmptyMap == [k \in {} |-> 0]

NoMsg == [serial |-> 0, id |-> 0]

\* BTreeMap::insert: an existing entry with the same key is replaced.
MapInsert(m, k, v) == [x \in DOMAIN m \cup {k} |-> IF x = k THEN v ELSE m[x]]

\* BTreeMap::remove
MapRemove(m, k) == [x \in DOMAIN m \ {k} |-> m[x]]

\* BTreeMap::keys().next(): the smallest key
FirstKey(m) == CHOOSE k \in DOMAIN m : \A j \in DOMAIN m : k <= j

SerialsOf(seq) == [i \in 1..Len(seq) |-> seq[i].serial]

(***************************************************************************)
(* `expected_serial += 1` on a u64.  With overflow checks (the debug       *)
(* profile) the addition panics at u64::MAX; without them (the release     *)
(* profile) it wraps to 0.                                                 *)
(***************************************************************************)
AddOne(e, oc) ==
    IF e < U64_MAX THEN [ok |-> TRUE, v |-> e + 1]
    ELSE IF oc THEN [ok |-> FALSE, v |-> e]
    ELSE [ok |-> TRUE, v |-> 0]

(***************************************************************************)
(* protocol.rs:150-153 and 190-194: `while let Some(next) =                *)
(* self.buffer.remove(&self.expected_serial)`.  e, buf and out are the     *)
(* values at the loop head; keep says whether removed entries are pushed   *)
(* to the result (insert) or dropped (drop_oldest).                        *)
(***************************************************************************)
RECURSIVE DrainRun(_, _, _, _, _)
DrainRun(e, buf, out, keep, oc) ==
    IF e \in DOMAIN buf
    THEN LET n == AddOne(e, oc)
             o == IF keep THEN Append(out, buf[e]) ELSE out
         IN  IF n.ok
             THEN DrainRun(n.v, MapRemove(buf, e), o, keep, oc)
             ELSE [expected_serial |-> e, buffer |-> MapRemove(buf, e),
                   ret |-> <<>>, panicked |-> TRUE]
    ELSE [expected_serial |-> e, buffer |-> buf, ret |-> out, panicked |-> FALSE]

\* protocol.rs:181-196
drop_oldest(e, buf, oc) ==
    IF DOMAIN buf # {}
    THEN DrainRun(FirstKey(buf), buf, <<>>, FALSE, oc)
    ELSE [expected_serial |-> e, buffer |-> buf, ret |-> <<>>, panicked |-> FALSE]

\* protocol.rs:139-143: duplicate / old packet
insert_old_buffers(e, buf, B, msg, oc) ==
    [expected_serial |-> e, buffer |-> MapInsert(buf, msg.serial, msg),
     ret |-> <<>>, panicked |-> FALSE]

insert_old(e, buf, B, msg, oc) ==
    [expected_serial |-> e, buffer |-> buf, ret |-> <<>>, panicked |-> FALSE]

\* protocol.rs:145-156: the expected packet, then the buffered run after it
insert_ready(e, buf, B, msg, oc) ==
    LET n == AddOne(e, oc)
    IN  IF n.ok
        THEN DrainRun(n.v, buf, <<msg>>, TRUE, oc)
        ELSE [expected_serial |-> e, buffer |-> buf, ret |-> <<>>,
              panicked |-> TRUE]

\* A variant of insert_future that never calls drop_oldest.
insert_future_unbounded(e, buf, B, msg, oc) ==
    [expected_serial |-> e, buffer |-> MapInsert(buf, msg.serial, msg),
     ret |-> <<>>, panicked |-> FALSE]

\* protocol.rs:158-166: a future packet
insert_future(e, buf, B, msg, oc) ==
    LET b == MapInsert(buf, msg.serial, msg)
    IN  IF Cardinality(DOMAIN b) > B
        THEN drop_oldest(e, b, oc)
        ELSE [expected_serial |-> e, buffer |-> b, ret |-> <<>>,
              panicked |-> FALSE]

\* protocol.rs:138-167
insert(e, buf, B, msg, oc) ==
    IF msg.serial < e THEN insert_old(e, buf, B, msg, oc)
    ELSE IF msg.serial = e THEN insert_ready(e, buf, B, msg, oc)
    ELSE insert_future(e, buf, B, msg, oc)

(***************************************************************************)
(* The orderer as a state machine: PacketOrderer::new(B), then insert      *)
(* calls with arbitrary serials.                                           *)
(***************************************************************************)
\* protocol.rs:129-135
OrdStart ==
    /\ expected_serial = 0
    /\ buffer = EmptyMap
    /\ backlog \in 0..MaxBacklog
    /\ overflow_checks \in BOOLEAN
    /\ panicked = FALSE
    /\ ninserts = 0
    /\ lastMsg = NoMsg
    /\ lastRet = <<>>
    /\ prevExpected = 0
    /\ prevBuffer = EmptyMap
    /\ emitted = <<>>
    /\ inserted = {}
    /\ skipped = {}

\* One call orderer.insert(msg) (server.rs:106).
Insert(s) ==
    /\ ~panicked
    /\ ninserts < MaxInserts
    /\ LET msg == [serial |-> s, id |-> ninserts + 1]
           r   == insert(expected_serial, buffer, backlog, msg, overflow_checks)
           b   == MapInsert(buffer, s, msg)
           over == s > expected_serial /\ Cardinality(DOMAIN b) > backlog
       IN  /\ expected_serial' = r.expected_serial
           /\ buffer' = r.buffer
           /\ panicked' = r.panicked
           /\ lastRet' = r.ret
           /\ lastMsg' = msg
           /\ emitted' = emitted \o r.ret
           /\ skipped' = IF over
                         THEN skipped \cup (expected_serial..(FirstKey(b) - 1))
                                      \cup (DOMAIN b \ DOMAIN r.buffer)
                         ELSE skipped
    /\ ninserts' = ninserts + 1
    /\ prevExpected' = expected_serial
    /\ prevBuffer' = buffer
    /\ inserted' = inserted \cup {s}
    /\ UNCHANGED <<backlog, overflow_checks>>
    /\ UNCHANGED <<pipeVars, unitVars>>

(***************************************************************************)
(* The record pipeline: run_recording and the threads it starts.           *)
(*                                                                         *)
(*   device callback --raw--> audio thread --chunks--> main task           *)
(*        main task --stt--> STT worker --results--> main task (writer)    *)
(***************************************************************************)
NoBundle == [chunk |-> 0, segs |-> <<>>]

\* Which ends of the tokio channels still exist.
chunk_rx_alive == mainPc # "returned"
result_rx_alive == mainPc # "returned"
stt_tx_alive == mainPc \notin {"drain_results", "returned"}
stt_rx_alive == sttPc \notin {"failed", "exited"}
result_tx_alive == sttPc \notin {"failed", "exited"}
\* Every clone of chunk_tx is dropped (recording.rs:46 drops the main task's).
chunks_closed == audioPc = "done" /\ ~udp_alive

\* recording.rs:14-120: the state when the main loop is entered.
PipeStart ==
    /\ stream_alive = TRUE
    /\ raw = <<>>
    /\ cbTick = 0
    /\ audioPc = "init"
    /\ audioPending = <<>>
    /\ udp_alive \in BOOLEAN
    /\ chunks = <<>>
    /\ stt = <<>>
    /\ results = <<>>
    /\ mainPc = "select"
    /\ mainHeld = 0
    /\ sttPc = "init"
    /\ sttHeld = NoBundle
    /\ shutdown_sig = FALSE
    /\ nextChunk = 1
    /\ entered = <<>>
    /\ taken = <<>>
    /\ transcribed = <<>>
    /\ produced = <<>>
    /\ received = <<>>
    /\ written = <<>>

pipeHist == <<nextChunk, entered, taken, transcribed, produced, received, written>>

\* capture.rs:60-63: the cpal input callback, `let _ = tx.try_send(..)`.
CaptureCallback_blocking_send ==
    /\ stream_alive
    /\ Len(raw) < RawCap
    /\ raw' = Append(raw, cbTick)
    /\ cbTick' = 1 - cbTick
    /\ UNCHANGED <<stream_alive, audioPc, audioPending, udp_alive, chunks, stt,
                   results, mainPc, mainHeld, sttPc, sttHeld, shutdown_sig,
                   pipeHist>>
    /\ UNCHANGED <<ordVars, unitVars>>

CaptureCallback ==
    /\ stream_alive
    /\ \/ /\ Len(raw) < RawCap
          /\ raw' = Append(raw, cbTick)
       \/ /\ Len(raw) >= RawCap          \* TrySendError::Full: buffer dropped
          /\ raw' = raw
    /\ cbTick' = 1 - cbTick
    /\ UNCHANGED <<stream_alive, audioPc, audioPending, udp_alive, chunks, stt,
                   results, mainPc, mainHeld, sttPc, sttHeld, shutdown_sig,
                   pipeHist>>
    /\ UNCHANGED <<ordVars, unitVars>>

\* audio/mod.rs:30-36: Resampler::new; on failure the thread returns.
AudioStart ==
    /\ audioPc = "init"
    /\ audioPc' \in {"recv", "done"}
    /\ UNCHANGED <<stream_alive, raw, cbTick, audioPending, udp_alive, chunks,
                   stt, results, mainPc, mainHeld, sttPc, sttHeld,
                   shutdown_sig, pipeHist>>
    /\ UNCHANGED <<ordVars, unitVars>>

\* audio/mod.rs:46-65: raw_rx.recv(), resample, accumulator.feed.  recv
\* blocks on an empty channel and fails once it is empty and disconnected.
AudioRecv ==
    /\ audioPc = "recv"
    /\ \/ /\ raw # <<>>
          /\ raw' = Tail(raw)
          /\ \E k \in 0..MaxFeed :
                /\ nextChunk + k <= MaxChunks + 1
                /\ audioPending' = [i \in 1..k |-> nextChunk + i - 1]
                /\ nextChunk' = nextChunk + k
                /\ audioPc' = IF k = 0 THEN "recv" ELSE "send"
       \/ /\ raw = <<>>
          /\ ~stream_alive
          /\ audioPc' = "flush"
          /\ UNCHANGED <<raw, audioPending, nextChunk>>
    /\ UNCHANGED <<stream_alive, cbTick, udp_alive, chunks, stt, results,
                   mainPc, mainHeld, sttPc, sttHeld, shutdown_sig, entered,
                   taken, transcribed, produced, received, written>>
    /\ UNCHANGED <<ordVars, unitVars>>

\* audio/mod.rs:65-74: chunk_tx.blocking_send(chunk) for each chunk of the feed.
AudioSend ==
    /\ audioPc = "send"
    /\ \/ /\ ~chunk_rx_alive              \* Err: receiver dropped, return
          /\ audioPc' = "done"
          /\ audioPending' = <<>>
          /\ UNCHANGED <<chunks, entered>>
       \/ /\ chunk_rx_alive
          /\ Len(chunks) < ChunkCap
          /\ chunks' = Append(chunks, Head(audioPending))
          /\ entered' = Append(entered, Head(audioPending))
          /\ audioPending' = Tail(audioPending)
          /\ audioPc' = IF Tail(audioPending) = <<>> THEN "recv" ELSE "send"
    /\ UNCHANGED <<stream_alive, raw, cbTick, udp_alive, stt, results, mainPc,
                   mainHeld, sttPc, sttHeld, shutdown_sig, nextChunk, taken,
                   transcribed, produced, received, written>>
    /\ UNCHANGED <<ordVars, unitVars>>

\* audio/mod.rs:77-78: accumulator.flush() after the raw channel closed.
AudioFlush ==
    /\ audioPc = "flush"
    /\ \/ /\ nextChunk <= MaxChunks       \* Some(chunk)
          /\ audioPending' = <<nextChunk>>
          /\ nextChunk' = nextChunk + 1
          /\ audioPc' = "flush_send"
       \/ /\ audioPc' = "done"            \* None: the buffer is empty
          /\ UNCHANGED <<audioPending, nextChunk>>
    /\ UNCHANGED <<stream_alive, raw, cbTick, udp_alive, chunks, stt, results,
                   mainPc, mainHeld, sttPc, sttHeld, shutdown_sig, entered,
                   taken, transcribed, produced, received, written>>
    /\ UNCHANGED <<ordVars, unitVars>>

\* audio/mod.rs:79-82: `let _ = chunk_tx.blocking_send(chunk)`, then exit.
AudioFlushSend ==
    /\ audioPc = "flush_send"
    /\ \/ /\ ~chunk_rx_alive
          /\ UNCHANGED <<chunks, entered>>
       \/ /\ chunk_rx_alive
          /\ Len(chunks) < ChunkCap
          /\ chunks' = Append(chunks, Head(audioPending))
          /\ entered' = Append(entered, Head(audioPending))
    /\ audioPending' = <<>>
    /\ audioPc' = "done"
    /\ UNCHANGED <<stream_alive, raw, cbTick, udp_alive, stt, results, mainPc,
                   mainHeld, sttPc, sttHeld, shutdown_sig, nextChunk, taken,
                   transcribed, produced, received, written>>
    /\ UNCHANGED <<ordVars, unitVars>>

\* recording.rs:27-38: the spawned UDP server task ends (bind error, panic,
\* or cancel observed at server.rs:68-73) and drops its clone of chunk_tx.
UdpExit ==
    /\ udp_alive
    /\ udp_alive' = FALSE
    /\ UNCHANGED <<stream_alive, raw, cbTick, audioPc, audioPending, chunks,
                   stt, results, mainPc, mainHeld, sttPc, sttHeld,
                   shutdown_sig, pipeHist>>
    /\ UNCHANGED <<ordVars, unitVars>>

\* recording.rs:116-120: Ctrl+C handler task.
ShutdownSignal ==
    /\ ~shutdown_sig
    /\ shutdown_sig' = TRUE
    /\ UNCHANGED <<stream_alive, raw, cbTick, audioPc, audioPending, udp_alive,
                   chunks, stt, results, mainPc, mainHeld, sttPc, sttHeld,
                   pipeHist>>
    /\ UNCHANGED <<ordVars, unitVars>>

\* recording.rs:132-136 and 172-176: `for segment in &segments
\* { writer.write_segment(segment, ..) }`.
WriteSegments_reversed(b) ==
    [i \in 1..Len(b.segs) |-> <<b.chunk, b.segs[Len(b.segs) + 1 - i]>>]

WriteSegments(b) ==
    [i \in 1..Len(b.segs) |-> <<b.chunk, b.segs[i]>>]

\* recording.rs:125: the select branch `Some(chunk) = chunk_rx.recv()`.
MainSelectChunk ==
    /\ mainPc = "select"
    /\ chunks # <<>>
    /\ mainHeld' = Head(chunks)
    /\ chunks' = Tail(chunks)
    /\ taken' = Append(taken, Head(chunks))
    /\ mainPc' = "stt_send"
    /\ UNCHANGED <<stream_alive, raw, cbTick, audioPc, audioPending, udp_alive,
                   stt, results, sttPc, sttHeld, shutdown_sig, nextChunk,
                   entered, transcribed, produced, received, written>>
    /\ UNCHANGED <<ordVars, unitVars>>

\* recording.rs:126-129: `stt_tx.send(chunk).await` inside that branch; the
\* task waits here while the STT input channel is full.
MainSttSend ==
    /\ mainPc = "stt_send"
    /\ \/ /\ ~stt_rx_alive                \* Err: "STT channel closed", break
          /\ mainPc' = "shutdown"
          /\ UNCHANGED stt
       \/ /\ stt_rx_alive
          /\ Len(stt) < SttCap
          /\ stt' = Append(stt, mainHeld)
          /\ mainPc' = "select"
    /\ mainHeld' = 0
    /\ UNCHANGED <<stream_alive, raw, cbTick, audioPc, audioPending, udp_alive,
                   chunks, results, sttPc, sttHeld, shutdown_sig, pipeHist>>
    /\ UNCHANGED <<ordVars, unitVars>>

\* recording.rs:131-142: the select branch `Some(..) = result_rx.recv()`.
MainSelectResult ==
    /\ mainPc = "select"
    /\ results # <<>>
    /\ results' = Tail(results)
    /\ received' = Append(received, Head(results).chunk)
    /\ written' = WriteSegments(Head(results))
    /\ UNCHANGED <<stream_alive, raw, cbTick, audioPc, audioPending, udp_alive,
                   chunks, stt, mainPc, mainHeld, sttPc, sttHeld, shutdown_sig,
                   nextChunk, entered, taken, transcribed, produced>>
    /\ UNCHANGED <<ordVars, unitVars>>

\* recording.rs:143-146: the select branch `_ = &mut shutdown_rx`.
MainSelectShutdown ==
    /\ mainPc = "select"
    /\ shutdown_sig
    /\ mainPc' = "shutdown"
    /\ UNCHANGED <<stream_alive, raw, cbTick, audioPc, audioPending, udp_alive,
                   chunks, stt, results, mainHeld, sttPc, sttHeld,
                   shutdown_sig, pipeHist>>
    /\ UNCHANGED <<ordVars, unitVars>>

\* recording.rs:150-157: cancel the UDP server, drop(capture).
MainShutdown ==
    /\ mainPc = "shutdown"
    /\ stream_alive' = FALSE
    /\ mainPc' = "drain_chunks"
    /\ UNCHANGED <<raw, cbTick, audioPc, audioPending, udp_alive, chunks, stt,
                   results, mainHeld, sttPc, sttHeld, shutdown_sig, pipeHist>>
    /\ UNCHANGED <<ordVars, unitVars>>

\* recording.rs:160 and 166-168: `while let Some(chunk) =
\* chunk_rx.recv().await`; on None the loop ends and stt_tx is dropped.
MainDrainRecv ==
    /\ mainPc = "drain_chunks"
    /\ \/ /\ chunks # <<>>
          /\ mainHeld' = Head(chunks)
          /\ chunks' = Tail(chunks)
          /\ taken' = Append(taken, Head(chunks))
          /\ mainPc' = "drain_send"
       \/ /\ chunks = <<>>
          /\ chunks_closed
          /\ mainPc' = "drain_results"
          /\ UNCHANGED <<mainHeld, chunks, taken>>
    /\ UNCHANGED <<stream_alive, raw, cbTick, audioPc, audioPending, udp_alive,
                   stt, results, sttPc, sttHeld, shutdown_sig, nextChunk,
                   entered, transcribed, produced, received, written>>
    /\ UNCHANGED <<ordVars, unitVars>>

\* recording.rs:161-163 and 166-168: `stt_tx.send(chunk).await` in the drain.
MainDrainSend ==
    /\ mainPc = "drain_send"
    /\ \/ /\ ~stt_rx_alive                \* Err: break, then drop(stt_tx)
          /\ mainPc' = "drain_results"
          /\ UNCHANGED stt
       \/ /\ stt_rx_alive
          /\ Len(stt) < SttCap
          /\ stt' = Append(stt, mainHeld)
          /\ mainPc' = "drain_chunks"
    /\ mainHeld' = 0
    /\ UNCHANGED <<stream_alive, raw, cbTick, audioPc, audioPending, udp_alive,
                   chunks, results, sttPc, sttHeld, shutdown_sig, pipeHist>>
    /\ UNCHANGED <<ordVars, unitVars>>

\* recording.rs:171-188: `while let Some(..) = result_rx.recv().await`, then
\* the final commit and the return.
MainDrainResults ==
    /\ mainPc = "drain_results"
    /\ \/ /\ results # <<>>
          /\ results' = Tail(results)
          /\ received' = Append(received, Head(results).chunk)
          /\ written' = WriteSegments(Head(results))
          /\ UNCHANGED mainPc
       \/ /\ results = <<>>
          /\ ~result_tx_alive
          /\ mainPc' = "returned"
          /\ UNCHANGED <<results, received, written>>
    /\ UNCHANGED <<stream_alive, raw, cbTick, audioPc, audioPending, udp_alive,
                   chunks, stt, mainHeld, sttPc, sttHeld, shutdown_sig,
                   nextChunk, entered, taken, transcribed, produced>>
    /\ UNCHANGED <<ordVars, unitVars>>

\* recording.rs:56-62: stt::create_engine; on failure the thread returns.
SttCreateEngine ==
    /\ sttPc = "init"
    /\ sttPc' \in {"recv", "failed"}
    /\ UNCHANGED <<stream_alive, raw, cbTick, audioPc, audioPending, udp_alive,
                   chunks, stt, results, mainPc, mainHeld, sttHeld,
                   shutdown_sig, pipeHist>>
    /\ UNCHANGED <<ordVars, unitVars>>

\* recording.rs:79-100: stt_rx.blocking_recv(), identify, engine.transcribe.
SttRecv ==
    /\ sttPc = "recv"
    /\ \/ /\ stt # <<>>
          /\ stt' = Tail(stt)
          /\ transcribed' = Append(transcribed, Head(stt))
          /\ \/ \E n \in {0, MaxSegs} :   \* Ok(segments): none, or several
                   /\ sttHeld' = [chunk |-> Head(stt), segs |-> [i \in 1..n |-> i]]
                   /\ produced' = Append(produced, Head(stt))
                   /\ sttPc' = "send"
             \/ UNCHANGED <<sttHeld, produced, sttPc>>   \* Err: logged
       \/ /\ stt = <<>>
          /\ ~stt_tx_alive                 \* None: channel closed
          /\ sttPc' = "exited"
          /\ UNCHANGED <<stt, transcribed, sttHeld, produced>>
    /\ UNCHANGED <<stream_alive, raw, cbTick, audioPc, audioPending, udp_alive,
                   chunks, results, mainPc, mainHeld, shutdown_sig, nextChunk,
                   entered, taken, received, written>>
    /\ UNCHANGED <<ordVars, unitVars>>

\* recording.rs:93-95: result_tx.blocking_send((segments, speaker_name)).
SttSend ==
    /\ sttPc = "send"
    /\ \/ /\ ~result_rx_alive             \* Err: break
          /\ sttPc' = "exited"
          /\ UNCHANGED results
       \/ /\ result_rx_alive
          /\ Len(results) < ResCap
          /\ results' = Append(results, sttHeld)
          /\ sttPc' = "recv"
    /\ sttHeld' = NoBundle
    /\ UNCHANGED <<stream_alive, raw, cbTick, audioPc, audioPending, udp_alive,
                   chunks, stt, mainPc, mainHeld, shutdown_sig, pipeHist>>
    /\ UNCHANGED <<ordVars, unitVars>>

(***************************************************************************)
(* AudioChunk and ChunkAccumulator (audio/buffer.rs).                      *)
(***************************************************************************)
\* Readings of Utc::now().  The wall clock has a finite resolution: between
\* two readings it may have advanced or stood still.  (The system clock can
\* also be set back; the model leaves that out.)
Times == 0 .. MaxClock

\* The readings a sequence of Utc::now() calls can return from time t on.
Readings(k, t) ==
    {r \in [1 .. k -> Times] :
        /\ k > 0 => r[1] >= t
        /\ \A i \in 1 .. k - 1 : r[i] <= r[i + 1]}

\* The f32 values of the model, each standing for n / F32_DEN.
F32 == (0 - F32_TOP) .. F32_TOP

\* The k-th sample of the input stream (k = 1, 2, ...): neighbouring samples
\* differ, and the values run over all of F32.
Signal(k) == ((2 * k) % (2 * F32_TOP + 1)) - F32_TOP

\* f32::clamp(s, -1.0, 1.0)
clamp(s) == IF s < 0 - F32_DEN THEN 0 - F32_DEN
            ELSE IF s > F32_DEN THEN F32_DEN ELSE s

\* `x as i16` of a float x = p / F32_DEN: the fraction is dropped (rounding
\* toward zero); |x| <= 32767 here, so the cast never saturates.
as_i16_nearest(p) ==
    IF p >= 0 THEN (2 * p + F32_DEN) \div (2 * F32_DEN)
    ELSE 0 - ((2 * (0 - p) + F32_DEN) \div (2 * F32_DEN))

as_i16(p) == IF p >= 0 THEN p \div F32_DEN ELSE 0 - ((0 - p) \div F32_DEN)

\* The closure of from_samples: (s.clamp(-1.0, 1.0) * 32767.0) as i16
to_i16(s) == as_i16(clamp(s) * I16_MAX)

\* An f32 quotient, kept as the pair it is computed from.
Quot(a, b) == [num |-> a, den |-> b]

\* from_samples taking the duration from the configured chunk length.
from_samples_fixed_duration(samples, timestamp) ==
    [samples_f32   |-> samples,
     samples_i16   |-> [i \in 1 .. Len(samples) |-> to_i16(samples[i])],
     timestamp     |-> timestamp,
     duration_secs |-> Quot(chunk_samples, SAMPLE_RATE)]

from_samples(samples, timestamp) ==
    [samples_f32   |-> samples,
     samples_i16   |-> [i \in 1 .. Len(samples) |-> to_i16(samples[i])],
     timestamp     |-> timestamp,
     duration_secs |-> Quot(Len(samples), SAMPLE_RATE)]

\* One call of from_samples, made when the clock reads t.
ConvStart == conv_in = <<>> /\ conv_out = <<>>

FromSamples(t) ==
    /\ conv_out = <<>>
    /\ conv_out' = <<from_samples(conv_in, t)>>
    /\ UNCHANGED conv_in
    /\ UNCHANGED exceptConv

\* Vec::drain(..n) for its effect on the vector.
DrainFront(v, n) == SubSeq(v, n + 1, Len(v))

\* ChunkAccumulator::new(chunk_duration_secs, overlap_secs), called when the
\* clock reads t.
new(chunk_duration_secs, overlap_secs, t) ==
    /\ wall_clock = t
    /\ acc_buffer = <<>>
    /\ chunk_samples = chunk_duration_secs * SAMPLE_RATE
    /\ overlap_samples = overlap_secs * SAMPLE_RATE
    /\ chunk_start = t
    /\ acc_op = "new"
    /\ acc_ret = <<>>
    /\ acc_ret_at = <<>>
    /\ acc_prev = <<>>
    /\ acc_prev_op = "new"
    /\ acc_at = <<>>
    /\ total_fed = 0
    /\ n_chunks = 0
    /\ flushed = FALSE

\* No accumulator yet: the audio thread has not reached audio/mod.rs:42.
AccStart ==
    /\ wall_clock = 0
    /\ acc_buffer = <<>>
    /\ chunk_samples = SAMPLE_RATE
    /\ overlap_samples = 0
    /\ chunk_start = 0
    /\ acc_op = "none"
    /\ acc_ret = <<>>
    /\ acc_ret_at = <<>>
    /\ acc_prev = <<>>
    /\ acc_prev_op = "none"
    /\ acc_at = <<>>
    /\ total_fed = 0
    /\ n_chunks = 0
    /\ flushed = FALSE

\* Number of turns of the while loop of feed on a buffer of len samples.
RECURSIVE loop_turns(_)
loop_turns(len) ==
    IF len >= chunk_samples
    THEN 1 + loop_turns(len - (chunk_samples - overlap_samples))
    ELSE 0

\* feed with `>` for `>=` in the loop condition.
RECURSIVE feed_loop_strict(_, _, _, _, _, _)
feed_loop_strict(buf, at, start, out, outAt, reads) ==
    IF Len(buf) > chunk_samples
    THEN LET chunk == from_samples(SubSeq(buf, 1, chunk_samples), start)
             drain_count == chunk_samples - overlap_samples
         IN  feed_loop_strict(DrainFront(buf, drain_count),
                              DrainFront(at, drain_count), Head(reads),
                              Append(out, chunk), Append(outAt, at[1]),
                              Tail(reads))
    ELSE [buffer |-> buf, at |-> at, chunk_start |-> start,
          chunks |-> out, firstAt |-> outAt]

\* feed draining the whole chunk, overlap included.
RECURSIVE feed_loop_no_overlap(_, _, _, _, _, _)
feed_loop_no_overlap(buf, at, start, out, outAt, reads) ==
    IF Len(buf) >= chunk_samples
    THEN LET chunk == from_samples(SubSeq(buf, 1, chunk_samples), start)
         IN  feed_loop_no_overlap(DrainFront(buf, chunk_samples),
                                  DrainFront(at, chunk_samples),
                                  IF reads = <<>> THEN start ELSE Head(reads),
                                  Append(out, chunk), Append(outAt, at[1]),
                                  IF reads = <<>> THEN reads ELSE Tail(reads))
    ELSE [buffer |-> buf, at |-> at, chunk_start |-> start,
          chunks |-> out, firstAt |-> outAt]

\* The while loop of feed.  reads are the values the successive Utc::now()
\* calls of the loop return; at carries the append time of every sample.
RECURSIVE feed_loop(_, _, _, _, _, _)
feed_loop(buf, at, start, out, outAt, reads) ==
    IF Len(buf) >= chunk_samples
    THEN LET chunk == from_samples(SubSeq(buf, 1, chunk_samples), start)
             drain_count == chunk_samples - overlap_samples
         IN  feed_loop(DrainFront(buf, drain_count), DrainFront(at, drain_count),
                       Head(reads), Append(out, chunk), Append(outAt, at[1]),
                       Tail(reads))
    ELSE [buffer |-> buf, at |-> at, chunk_start |-> start,
          chunks |-> out, firstAt |-> outAt]

\* `self.chunk_samples - self.overlap_samples` on usize (buffer.rs:65): with
\* overflow checks a negative difference panics, without them it wraps.
drain_count_of(cs, os, oc) ==
    IF cs >= os THEN [ok |-> TRUE, v |-> cs - os]
    ELSE IF oc THEN [ok |-> FALSE, v |-> 0]
    ELSE [ok |-> TRUE, v |-> cs - os + USIZE_MAX + 1]

\* How the while loop of feed (buffer.rs:59-68) ends on a buffer of len
\* samples: it "returns"; or it "panicked", in the subtraction or in
\* Vec::drain(..n) with n beyond the length; or it "diverged", when a turn
\* drains nothing and so leaves the loop condition as it found it.
RECURSIVE feed_outcome(_, _, _, _)
feed_outcome(len, cs, os, oc) ==
    IF len < cs THEN "returns"
    ELSE LET d == drain_count_of(cs, os, oc)
         IN  IF ~d.ok \/ d.v > len THEN "panicked"
             ELSE IF d.v = 0 THEN "diverged"
             ELSE feed_outcome(len - d.v, cs, os, oc)

\* What the caller has seen of the calls before the one that now returns.
AccRemember ==
    /\ acc_prev' = IF acc_ret # <<>> THEN <<acc_ret[Len(acc_ret)]>> ELSE acc_prev
    /\ acc_prev_op' = IF acc_ret # <<>> THEN acc_op ELSE acc_prev_op

\* ChunkAccumulator::feed(samples) with the next n samples of the stream,
\* entered when the clock reads t0.
Feed(n, t0) ==
    /\ acc_op # "none"
    /\ total_fed + n <= MaxFed
    /\ t0 >= wall_clock
    /\ LET samples == [i \in 1 .. n |-> Signal(total_fed + i)]
           start0 == IF acc_buffer = <<>> THEN t0 ELSE chunk_start
           buf0 == acc_buffer \o samples
           at0 == acc_at \o [i \in 1 .. n |-> t0]
       IN  \E reads \in Readings(loop_turns(Len(buf0)), t0) :
             LET r == feed_loop(buf0, at0, start0, <<>>, <<>>, reads)
             IN  /\ acc_buffer' = r.buffer
                 /\ acc_at' = r.at
                 /\ chunk_start' = r.chunk_start
                 /\ acc_ret' = r.chunks
                 /\ acc_ret_at' = r.firstAt
                 /\ n_chunks' = n_chunks + Len(r.chunks)
                 /\ wall_clock' = IF reads = <<>> THEN t0 ELSE reads[Len(reads)]
    /\ total_fed' = total_fed + n
    /\ acc_op' = "feed"
    /\ AccRemember
    /\ UNCHANGED <<chunk_samples, overlap_samples, flushed>>
    /\ UNCHANGED exceptAcc

\* accumulator.feed(&mono_16k) (audio/mod.rs:62) on an accumulator built
\* from any configuration: the call of Feed when the loop ends, and
\* otherwise the audio thread caught in the call or unwound by the panic.
FeedConfigured(n, t0) ==
    /\ acc_op \in {"new", "feed"}
    /\ LET outcome == feed_outcome(Len(acc_buffer) + n, chunk_samples,
                                   overlap_samples, overflow_checks)
       IN  IF outcome = "returns" THEN Feed(n, t0)
           ELSE /\ total_fed + n <= MaxFed
                /\ t0 >= wall_clock
                /\ acc_op' = outcome
                /\ acc_buffer' = acc_buffer \o [i \in 1 .. n |-> Signal(total_fed + i)]
                /\ acc_at' = acc_at \o [i \in 1 .. n |-> t0]
                /\ total_fed' = total_fed + n
                /\ wall_clock' = t0
                /\ acc_ret' = <<>>
                /\ acc_ret_at' = <<>>
                /\ UNCHANGED <<chunk_samples, overlap_samples, chunk_start,
                               acc_prev, acc_prev_op, n_chunks, flushed>>
                /\ UNCHANGED exceptAcc

\* flush copying the buffer instead of draining it.
Flush_keeps_buffer ==
    /\ acc_op # "none"
    /\ acc_ret' = IF acc_buffer = <<>> THEN <<>>
                  ELSE <<from_samples(acc_buffer, chunk_start)>>
    /\ acc_ret_at' = IF acc_buffer = <<>> THEN <<>> ELSE <<acc_at[1]>>
    /\ acc_op' = "flush"
    /\ flushed' = TRUE
    /\ AccRemember
    /\ UNCHANGED <<wall_clock, acc_buffer, acc_at, chunk_samples, overlap_samples,
                   chunk_start, total_fed, n_chunks>>
    /\ UNCHANGED exceptAcc

\* ChunkAccumulator::flush(); an Option is a list of at most one element.
Flush ==
    /\ acc_op # "none"
    /\ IF acc_buffer = <<>>
       THEN /\ acc_ret' = <<>>
            /\ acc_ret_at' = <<>>
            /\ UNCHANGED <<acc_buffer, acc_at>>
       ELSE /\ acc_ret' = <<from_samples(acc_buffer, chunk_start)>>
            /\ acc_ret_at' = <<acc_at[1]>>
            /\ acc_buffer' = <<>>
            /\ acc_at' = <<>>
    /\ acc_op' = "flush"
    /\ flushed' = TRUE
    /\ AccRemember
    /\ UNCHANGED <<wall_clock, chunk_samples, overlap_samples, chunk_start,
                   total_fed, n_chunks>>
    /\ UNCHANGED exceptAcc

(***************************************************************************)
(* Wire format and encryption (net/protocol.rs, net/crypto.rs).            *)
(***************************************************************************)
MessageTypes ==
    {"AudioData", "PassphraseChangeRequest", "PassphraseChangeAck", "EndOfStream"}

\* `message_type as u8`
as_u8(ty) ==
    CASE ty = "AudioData" -> 1
      [] ty = "PassphraseChangeRequest" -> 2
      [] ty = "PassphraseChangeAck" -> 3
      [] ty = "EndOfStream" -> 255

\* MessageType::from_u8; an Option is a list of at most one element.
from_u8(v) ==
    CASE v = 1 -> <<"AudioData">>
      [] v = 2 -> <<"PassphraseChangeRequest">>
      [] v = 3 -> <<"PassphraseChangeAck">>
      [] v = 255 -> <<"EndOfStream">>
      [] OTHER -> <<>>

Ok(v) == [ok |-> TRUE, val |-> v]

Err(e) == [ok |-> FALSE, val |-> e]

\* A [u8; n] filled with one byte ([1u8; 32]).
Filled(b, n) == [i \in 1 .. n |-> b]

\* 32-byte keys of the model, and the 12-byte nonces generate_nonce returns
\* in it.
Keys == {Filled(b, 32) : b \in 1 .. MaxKeys}

Nonces == {Filled(0, 12), Filled(7, 12)}

\* Byte strings passed as message data.
RECURSIVE BytesUpTo(_)
BytesUpTo(n) ==
    IF n = 0 THEN {<<>>}
    ELSE LET shorter == BytesUpTo(n - 1)
         IN  shorter \cup {Append(d, b) : d \in {x \in shorter : Len(x) = n - 1},
                                          b \in {0, 255}}

\* AES-256-GCM as a black box: the sealed text of a plaintext is 16 bytes
\* longer than the plaintext and is determined by the key, the nonce and the
\* whole plaintext (the model writes them into its first byte and numbers
\* the bytes).  Opening succeeds exactly on a text that was sealed with the
\* same key and nonce and has not been altered.
Seal(key, nonce, plaintext) ==
    [i \in 1 .. Len(plaintext) + 16 |->
        [pos |-> i, of |-> IF i = 1 THEN <<key, nonce, plaintext>> ELSE <<>>]]

Open(key, nonce, ciphertext) ==
    IF /\ Len(ciphertext) >= 16
       /\ Len(ciphertext[1].of) = 3
       /\ ciphertext = Seal(key, nonce, ciphertext[1].of[3])
    THEN Ok(ciphertext[1].of[3])
    ELSE Err("decryption failed")

\* CryptoContext::new
CryptoContext(key) == [cipher |-> key, key_bytes |-> key]

\* CryptoContext::encrypt; nonce is what generate_nonce returned.
encrypt(crypto, plaintext, nonce) ==
    [ciphertext |-> Seal(crypto.cipher, nonce, plaintext), nonce |-> nonce]

\* CryptoContext::decrypt
decrypt(crypto, nonce, ciphertext) == Open(crypto.cipher, nonce, ciphertext)

\* update_key that forgets to rebuild the cipher.
update_key_keeps_cipher(crypto, new_key) ==
    [cipher |-> crypto.cipher, key_bytes |-> new_key]

\* CryptoContext::update_key
update_key(crypto, new_key) == [cipher |-> new_key, key_bytes |-> new_key]

\* u64::to_be_bytes and u64::from_be_bytes: n digits in base 256, the most
\* significant first.
RECURSIVE to_be_bytes(_, _)
to_be_bytes(v, n) ==
    IF n = 0 THEN <<>> ELSE Append(to_be_bytes(v \div 256, n - 1), v % 256)

RECURSIVE from_be_bytes(_)
from_be_bytes(bytes) ==
    IF bytes = <<>> THEN 0
    ELSE 256 * from_be_bytes(SubSeq(bytes, 1, Len(bytes) - 1)) + bytes[Len(bytes)]

MIN_PACKET_SIZE == 8 + 12 + 1 + 16

\* encode_packet; encryption of a datagram-sized payload does not fail.
encode_packet(serial, message_type, data, crypto, nonce) ==
    LET payload == <<as_u8(message_type)>> \o data
        sealed == encrypt(crypto, payload, nonce)
    IN  to_be_bytes(serial, 8) \o sealed.nonce \o sealed.ciphertext

\* decode_packet that also rejects a packet of exactly the minimum size.
decode_packet_min_exclusive(packet, crypto) ==
    IF Len(packet) <= MIN_PACKET_SIZE
    THEN Err("packet too small")
    ELSE LET opened == decrypt(crypto, SubSeq(packet, 9, 20),
                               SubSeq(packet, 21, Len(packet)))
         IN  IF ~opened.ok THEN opened
             ELSE Ok([serial |-> from_be_bytes(SubSeq(packet, 1, 8)),
                      message_type |-> from_u8(opened.val[1])[1],
                      data |-> Tail(opened.val)])

decode_packet(packet, crypto) ==
    IF Len(packet) < MIN_PACKET_SIZE
    THEN Err("packet too small")
    ELSE LET serial == from_be_bytes(SubSeq(packet, 1, 8))
             nonce == SubSeq(packet, 9, 20)
             ciphertext == SubSeq(packet, 21, Len(packet))
             opened == decrypt(crypto, nonce, ciphertext)
         IN  IF ~opened.ok THEN opened
             ELSE IF opened.val = <<>> THEN Err("empty payload after decryption")
             ELSE IF from_u8(opened.val[1]) = <<>> THEN Err("unknown message type")
             ELSE Ok([serial |-> serial,
                      message_type |-> from_u8(opened.val[1])[1],
                      data |-> Tail(opened.val)])

\* One CryptoContext and the last packet it sealed.
CodecStart(k) ==
    /\ ctx = CryptoContext(k)
    /\ pkt = <<>>
    /\ packet_of = <<>>
    /\ packet_key = <<>>
    /\ decoded = <<>>
    /\ decoded_key = <<>>
    /\ rekeyed = FALSE

\* encode_packet(serial, message_type, data, &crypto)
Encode(serial, message_type, data, nonce) ==
    /\ pkt' = encode_packet(serial, message_type, data, ctx, nonce)
    /\ packet_of' = <<[serial |-> serial, message_type |-> message_type,
                       data |-> data]>>
    /\ packet_key' = ctx.key_bytes
    /\ decoded' = <<>>
    /\ decoded_key' = <<>>
    /\ UNCHANGED <<ctx, rekeyed>>
    /\ UNCHANGED exceptCodec

\* crypto.update_key(&new_key)
UpdateKey(new_key) ==
    /\ ctx' = update_key(ctx, new_key)
    /\ rekeyed' = TRUE
    /\ decoded' = <<>>
    /\ decoded_key' = <<>>
    /\ UNCHANGED <<pkt, packet_of, packet_key>>
    /\ UNCHANGED exceptCodec

\* decode_packet(&packet, &crypto) on the last packet
Decode ==
    /\ pkt # <<>>
    /\ decoded' = <<decode_packet(pkt, ctx)>>
    /\ decoded_key' = ctx.key_bytes
    /\ UNCHANGED <<ctx, pkt, packet_of, packet_key, rekeyed>>
    /\ UNCHANGED exceptCodec

\* A datagram in flight whose first eight bytes, the serial that precedes
\* the nonce and the sealed text (protocol.rs:69-71), are replaced before
\* decode_packet reads them (protocol.rs:87-91).
AlterSerial(serial) ==
    /\ pkt # <<>>
    /\ pkt' = to_be_bytes(serial, 8) \o SubSeq(pkt, 9, Len(pkt))
    /\ pkt' # pkt
    /\ decoded' = <<>>
    /\ decoded_key' = <<>>
    /\ UNCHANGED <<ctx, packet_of, packet_key, rekeyed>>
    /\ UNCHANGED exceptCodec

(***************************************************************************)
(* The datagram receiver (net/server.rs).                                  *)
(***************************************************************************)
\* i16::from_le_bytes([b0, b1]) and its inverse.
from_le_bytes(b0, b1) ==
    LET u == b0 + 256 * b1 IN IF u >= 32768 THEN u - 65536 ELSE u

to_le_bytes(v) ==
    LET u == IF v < 0 THEN v + 65536 ELSE v IN <<u % 256, u \div 256>>

\* data.chunks_exact(2).map(from_le_bytes): a last odd byte is left out.
samples_of(data) ==
    [i \in 1 .. Len(data) \div 2 |-> from_le_bytes(data[2 * i - 1], data[2 * i])]

\* The body of an AudioData message with n samples, followed by one more
\* byte when odd.
RECURSIVE AudioBody(_, _)
AudioBody(n, odd) ==
    IF n = 0 THEN (IF odd THEN <<7>> ELSE <<>>)
    ELSE to_le_bytes(<<256, 0 - 1, 1>>[(n % 3) + 1]) \o AudioBody(n - 1, odd)

\* Messages that arrive: audio of less than a chunk, of one chunk and of
\* more than a chunk (MaxBody samples), key changes with a key or with a
\* body of another length, and the two types without a body.
Messages ==
    {[message_type |-> "AudioData", data |-> AudioBody(n, FALSE)] :
        n \in {1, SAMPLE_RATE, MaxBody}}
    \cup {[message_type |-> "AudioData", data |-> AudioBody(1, TRUE)]}
    \cup {[message_type |-> "PassphraseChangeRequest", data |-> k] : k \in Keys}
    \cup {[message_type |-> "PassphraseChangeRequest", data |-> <<1, 0>>],
          [message_type |-> "PassphraseChangeAck", data |-> <<>>],
          [message_type |-> "EndOfStream", data |-> <<>>]}

\* Datagrams sealed under key whose payload is no message: no byte at all,
\* or a type byte that from_u8 does not know.
Malformed(key) ==
    {to_be_bytes(0, 8) \o Filled(0, 12) \o Seal(key, Filled(0, 12), payload) :
        payload \in {<<>>, <<0>>}}

\* The key a datagram's sender sealed it with, if it has a sealed text.
SealedWith(data) ==
    IF Len(data) > 20 /\ Len(data[21].of) = 3 THEN <<data[21].of[1]>> ELSE <<>>

\* What arrives at the socket of a server that holds key: every message and
\* the malformed payloads from a sender that holds the same key, audio and
\* key changes from senders that hold another key, and a datagram shorter
\* than any packet.
Datagrams(key) ==
    {encode_packet(s, m.message_type, m.data, CryptoContext(key), Filled(0, 12)) :
        s \in 0 .. MaxSerial, m \in Messages}
    \cup {encode_packet(0, m.message_type, m.data, CryptoContext(k), Filled(0, 12)) :
            m \in {[message_type |-> "AudioData", data |-> AudioBody(1, FALSE)],
                    [message_type |-> "PassphraseChangeRequest", data |-> key]},
            k \in Keys \ {key}}
    \cup Malformed(key)
    \cup {<<0>>}

\* The same, tabulated by the key of the server.
Arriving == [key \in Keys |-> Datagrams(key)]

\* mpsc::Sender::blocking_send, by where it is called: on a thread that is
\* driving a runtime it panics; elsewhere it returns Err once the receiver
\* is gone and Ok after the value has entered the channel.
blocking_send(rt, open) == IF rt THEN "panic" ELSE IF open THEN "ok" ELSE "err"

\* server.rs:131-143 and 159-169: the chunk built from drained samples.
full_chunk(chunk_i16, now) ==
    [samples_f32   |-> [i \in 1 .. Len(chunk_i16) |-> Quot(chunk_i16[i], I16_MAX)],
     samples_i16   |-> chunk_i16,
     timestamp     |-> now,
     duration_secs |-> Quot(1, 1)]

flushed_chunk(chunk_i16, now) ==
    [samples_f32   |-> [i \in 1 .. Len(chunk_i16) |-> Quot(chunk_i16[i], I16_MAX)],
     samples_i16   |-> chunk_i16,
     timestamp     |-> now,
     duration_secs |-> Quot(Len(chunk_i16), SAMPLE_RATE)]

\* The progress of one handler: the carryover, the chunks built and the
\* chunks that entered the channel so far, and whether the task is alive.
Progress(buf) == [audio_buffer |-> buf, built |-> <<>>, sent |-> <<>>, alive |-> TRUE]

\* server.rs:129-149: the while loop of process_message.
RECURSIVE send_loop(_, _, _, _)
send_loop(st, rt, open, now) ==
    IF Len(st.audio_buffer) >= SAMPLE_RATE
    THEN LET audio_chunk == full_chunk(SubSeq(st.audio_buffer, 1, SAMPLE_RATE), now)
             drained == [st EXCEPT !.audio_buffer = DrainFront(@, SAMPLE_RATE),
                                   !.built = Append(@, audio_chunk)]
             outcome == blocking_send(rt, open)
         IN  IF outcome = "panic" THEN [drained EXCEPT !.alive = FALSE]
             ELSE IF outcome = "err" THEN drained
             ELSE send_loop([drained EXCEPT !.sent = Append(@, audio_chunk)],
                            rt, open, now)
    ELSE st

\* server.rs:114-150
process_message(st, msg, rt, open, now) ==
    IF msg.message_type # "AudioData" THEN st
    ELSE send_loop([st EXCEPT !.audio_buffer = @ \o samples_of(msg.data)],
                   rt, open, now)

\* server.rs:107-109: `for msg in &ready { self.process_message(msg) }`
RECURSIVE process_ready(_, _, _, _, _)
process_ready(st, ready, rt, open, now) ==
    IF ready = <<>> \/ ~st.alive THEN st
    ELSE process_ready(process_message(st, Head(ready), rt, open, now),
                       Tail(ready), rt, open, now)

\* server.rs:152-172
flush_audio_buffer(st, rt, open, now) ==
    IF st.audio_buffer = <<>> THEN st
    ELSE LET audio_chunk == flushed_chunk(st.audio_buffer, now)
             drained == [st EXCEPT !.audio_buffer = <<>>,
                                   !.built = Append(@, audio_chunk)]
             outcome == blocking_send(rt, open)
         IN  IF outcome = "panic" THEN [drained EXCEPT !.alive = FALSE]
             ELSE IF outcome = "err" THEN drained
             ELSE [drained EXCEPT !.sent = Append(@, audio_chunk)]

\* UdpServer::bind (server.rs:42-49); rt says whether the task that polls
\* run is driven by a worker of the runtime.
bind(B, fw, rt, key) ==
    /\ udp_pc = "recv"
    /\ in_runtime = rt
    /\ udp_crypto = CryptoContext(key)
    /\ udp_expected = 0
    /\ udp_buffer = EmptyMap
    /\ udp_backlog = B
    /\ firewall = fw
    /\ audio_buffer = <<>>
    /\ sink_open = TRUE
    /\ udp_op = "bind"
    /\ udp_kind = "none"
    /\ udp_samples = <<>>
    /\ udp_built = <<>>
    /\ udp_sent = <<>>
    /\ udp_ack = <<>>
    /\ udp_request = <<>>
    /\ udp_sealed_with = <<>>
    /\ udp_blocked = FALSE
    /\ udp_kept = <<>>
    /\ snd_pc = "idle"
    /\ snd_serial = 0
    /\ snd_data = <<>>
    /\ snd_runs = 0

\* No server: config.udp.enabled is false (recording.rs:22).
UdpStart ==
    /\ udp_pc = "off"
    /\ in_runtime = TRUE
    /\ udp_crypto = CryptoContext(Filled(1, 32))
    /\ udp_expected = 0
    /\ udp_buffer = EmptyMap
    /\ udp_backlog = 0
    /\ firewall = FALSE
    /\ audio_buffer = <<>>
    /\ sink_open = TRUE
    /\ udp_op = "bind"
    /\ udp_kind = "none"
    /\ udp_samples = <<>>
    /\ udp_built = <<>>
    /\ udp_sent = <<>>
    /\ udp_ack = <<>>
    /\ udp_request = <<>>
    /\ udp_sealed_with = <<>>
    /\ udp_blocked = FALSE
    /\ udp_kept = <<>>
    /\ snd_pc = "idle"
    /\ snd_serial = 0
    /\ snd_data = <<>>
    /\ snd_runs = 0

\* What every handler of a datagram records.
RECURSIVE samples_in(_)
samples_in(ready) ==
    IF ready = <<>> THEN <<>>
    ELSE (IF Head(ready).message_type = "AudioData"
          THEN samples_of(Head(ready).data) ELSE <<>>) \o samples_in(Tail(ready))

Handled(kind, ready, st, ack, blocked, request) ==
    /\ udp_op' = "packet"
    /\ udp_kind' = kind
    /\ udp_samples' = samples_in(ready)
    /\ audio_buffer' = st.audio_buffer
    /\ udp_built' = st.built
    /\ udp_sent' = st.sent
    /\ udp_pc' = IF st.alive THEN "recv" ELSE "panicked"
    /\ udp_ack' = ack
    /\ udp_request' = request
    /\ udp_blocked' = blocked
    /\ UNCHANGED <<in_runtime, udp_backlog, firewall, sink_open>>
    /\ UNCHANGED exceptUdp

\* The Err arm of handle_packet calling block_ip without looking for a
\* configured manager.
HandleUndecodable_always_blocks ==
    /\ Handled("undecodable", <<>>, Progress(audio_buffer), <<>>, TRUE, <<>>)
    /\ UNCHANGED <<udp_crypto, udp_expected, udp_buffer>>

\* handle_packet on a datagram that does not decode (server.rs:82-93).
HandleUndecodable ==
    /\ Handled("undecodable", <<>>, Progress(audio_buffer), <<>>, firewall, <<>>)
    /\ UNCHANGED <<udp_crypto, udp_expected, udp_buffer>>

\* handle_passphrase_change that seals the ack before it updates the key.
handle_passphrase_change_old_key_ack(msg) ==
    /\ IF Len(msg.data) # 32
       THEN /\ Handled("passphrase", <<>>, Progress(audio_buffer), <<>>, FALSE,
                       <<msg>>)
            /\ UNCHANGED udp_crypto
       ELSE \E nonce \in Nonces :
              LET ack == encode_packet(msg.serial, "PassphraseChangeAck", <<>>,
                                       udp_crypto, nonce)
              IN  /\ udp_crypto' = update_key(udp_crypto, msg.data)
                  /\ Handled("passphrase", <<>>, Progress(audio_buffer), <<ack>>,
                             FALSE, <<msg>>)
    /\ UNCHANGED <<udp_expected, udp_buffer>>

\* handle_passphrase_change (server.rs:174-200); nonce is the one generated
\* for the ack.
handle_passphrase_change(msg) ==
    /\ IF Len(msg.data) # 32
       THEN /\ Handled("passphrase", <<>>, Progress(audio_buffer), <<>>, FALSE,
                       <<msg>>)
            /\ UNCHANGED udp_crypto
       ELSE \E nonce \in Nonces :
              LET crypto == update_key(udp_crypto, msg.data)
                  ack == encode_packet(msg.serial, "PassphraseChangeAck", <<>>,
                                       crypto, nonce)
              IN  /\ udp_crypto' = crypto
                  /\ Handled("passphrase", <<>>, Progress(audio_buffer), <<ack>>,
                             FALSE, <<msg>>)
    /\ UNCHANGED <<udp_expected, udp_buffer>>

\* The EndOfStream arm of handle_packet (server.rs:100-103).
HandleEndOfStream ==
    /\ \E now \in Times :
          LET st == flush_audio_buffer(Progress(audio_buffer), in_runtime,
                                       sink_open, now)
          IN  /\ st.built = <<>> => now = 0
              /\ Handled("eos", <<>>, st, <<>>, FALSE, <<>>)
    /\ UNCHANGED <<udp_crypto, udp_expected, udp_buffer>>

\* The last arm of handle_packet (server.rs:104-110).
HandleOrdered(msg) ==
    /\ \E now \in Times :
          LET r == insert(udp_expected, udp_buffer, udp_backlog, msg,
                          overflow_checks)
              st == IF r.panicked
                    THEN [Progress(audio_buffer) EXCEPT !.alive = FALSE]
                    ELSE process_ready(Progress(audio_buffer), r.ret,
                                       in_runtime, sink_open, now)
          IN  /\ st.built = <<>> => now = 0
              /\ udp_expected' = r.expected_serial
              /\ udp_buffer' = r.buffer
              /\ Handled("ordered", r.ret, st, <<>>, FALSE, <<>>)
    /\ UNCHANGED udp_crypto

\* handle_packet(data, addr) (server.rs:80-112).
handle_packet(data) ==
    /\ udp_pc = "recv"
    /\ udp_sealed_with' = SealedWith(data)
    /\ LET dec == decode_packet(data, udp_crypto)
       IN  IF ~dec.ok THEN HandleUndecodable
           ELSE IF dec.val.message_type = "PassphraseChangeRequest"
                THEN handle_passphrase_change(dec.val)
           ELSE IF dec.val.message_type = "EndOfStream" THEN HandleEndOfStream
           ELSE HandleOrdered(dec.val)

\* One turn of the loop of run on a datagram from the socket
\* (server.rs:58-62).
HandlePacket(data) == handle_packet(data) /\ UNCHANGED netVars

\* The cancel branch of run (server.rs:69-74).
Cancel(now) ==
    /\ udp_pc = "recv"
    /\ LET st == flush_audio_buffer(Progress(audio_buffer), in_runtime, sink_open, now)
       IN  /\ st.built = <<>> => now = 0
           /\ audio_buffer' = st.audio_buffer
           /\ udp_built' = st.built
           /\ udp_sent' = st.sent
           /\ udp_pc' = IF st.alive THEN "done" ELSE "panicked"
    /\ udp_op' = "cancel"
    /\ udp_kind' = "none"
    /\ udp_samples' = <<>>
    /\ udp_ack' = <<>>
    /\ udp_request' = <<>>
    /\ udp_sealed_with' = <<>>
    /\ udp_blocked' = FALSE
    /\ UNCHANGED <<in_runtime, udp_crypto, udp_expected, udp_buffer, udp_backlog,
                   firewall, sink_open>>
    /\ UNCHANGED netVars
    /\ UNCHANGED exceptUdp

\* A turn of the loop of run on a datagram that decodes, with a listener on
\* the network that keeps a copy of one datagram.
HandleAndKeep(data) ==
    /\ udp_kept = <<>>
    /\ decode_packet(data, udp_crypto).ok
    /\ handle_packet(data)
    /\ udp_kept' = <<data>>
    /\ UNCHANGED <<snd_pc, snd_serial, snd_data, snd_runs>>

\* The listener sends its copy again: recv_from returns the same bytes and
\* run calls handle_packet on them (server.rs:58-62).
Redeliver ==
    /\ udp_kept # <<>>
    /\ handle_packet(udp_kept[1])
    /\ UNCHANGED netVars

(***************************************************************************)
(* `hoover send` (net/client.rs) in front of the receiver: the network     *)
(* delivers each datagram once, in the order of the send_to calls.         *)
(***************************************************************************)
\* read_audio_data (client.rs:73-95): the bytes of the file or of stdin.
audio_data(len) == AudioBody(len \div 2, len % 2 = 1)

\* CryptoContext::from_key_file (client.rs:31) on the key file both ends
\* share.
sender_crypto == CryptoContext(Filled(1, 32))

\* socket.send_to(&packet, target_addr) followed by the receiver's turn on
\* the datagram; a receiver that is gone receives nothing.
send_to(packet) ==
    IF udp_pc = "recv" THEN handle_packet(packet)
    ELSE UNCHANGED srvVars /\ UNCHANGED exceptUdp

\* run_sender up to the loop (client.rs:16-44).
RunSender(len) ==
    /\ udp_pc # "off"
    /\ snd_pc \in {"idle", "done"}
    /\ snd_runs < MaxRuns
    /\ snd_data' = audio_data(len)
    /\ snd_serial' = 0
    /\ snd_pc' = IF len = 0 THEN "eos" ELSE "audio"
    /\ snd_runs' = snd_runs + 1
    /\ UNCHANGED <<srvVars, udp_kept>>
    /\ UNCHANGED exceptUdp

\* audio_data.chunks(MAX_PAYLOAD_SIZE): the next chunk
next_chunk(data) ==
    SubSeq(data, 1, IF Len(data) < MAX_PAYLOAD_SIZE THEN Len(data)
                    ELSE MAX_PAYLOAD_SIZE)

\* One turn of the loop of run_sender (client.rs:47-57).
SendAudio ==
    /\ snd_pc = "audio"
    /\ LET chunk == next_chunk(snd_data)
           rest == SubSeq(snd_data, Len(chunk) + 1, Len(snd_data))
       IN  /\ send_to(encode_packet(snd_serial, "AudioData", chunk,
                                    sender_crypto, Filled(0, 12)))
           /\ snd_serial' = snd_serial + 1
           /\ snd_data' = rest
           /\ snd_pc' = IF rest = <<>> THEN "eos" ELSE "audio"
    /\ UNCHANGED <<snd_runs, udp_kept>>

\* The end-of-stream marker (client.rs:59-66).
SendEndOfStream ==
    /\ snd_pc = "eos"
    /\ send_to(encode_packet(snd_serial, "EndOfStream", <<>>, sender_crypto,
                             Filled(0, 12)))
    /\ snd_pc' = "done"
    /\ UNCHANGED <<snd_serial, snd_data, snd_runs, udp_kept>>

(***************************************************************************)
(* The markdown writer (output/markdown.rs).                               *)
(***************************************************************************)
\* Characters of a text: letters in both cases and the space.
Chars == {"a", "A", "b", " "}

\* str::to_lowercase, on a character and on a word.
lower(c) == CASE c = "A" -> "a" [] c = "B" -> "b" [] OTHER -> c

to_lowercase(w) == [i \in 1 .. Len(w) |-> lower(w[i])]

\* str::split_whitespace: the maximal runs of characters other than
\* whitespace, in order.
RECURSIVE split_from(_, _, _)
split_from(text, i, word) ==
    IF i > Len(text) THEN (IF word = <<>> THEN <<>> ELSE <<word>>)
    ELSE IF text[i] = " "
         THEN (IF word = <<>> THEN <<>> ELSE <<word>>) \o split_from(text, i + 1, <<>>)
         ELSE split_from(text, i + 1, Append(word, text[i]))

split_whitespace(text) == split_from(text, 1, <<>>)

\* [&str]::join(" ")
RECURSIVE join(_)
join(words) ==
    IF words = <<>> THEN <<>>
    ELSE IF Len(words) = 1 THEN words[1]
    ELSE words[1] \o <<" ">> \o join(Tail(words))

\* The loop comparing the new words as they are written.
RECURSIVE overlap_loop_case_sensitive(_, _, _, _, _)
overlap_loop_case_sensitive(trailing, new_words, overlap_len, max_overlap, best) ==
    IF overlap_len > max_overlap THEN best
    ELSE LET trailing_suffix == SubSeq(trailing, Len(trailing) - overlap_len + 1,
                                       Len(trailing))
             new_prefix == SubSeq(new_words, 1, overlap_len)
         IN  overlap_loop_case_sensitive(trailing, new_words, overlap_len + 1,
                max_overlap, IF trailing_suffix = new_prefix THEN overlap_len ELSE best)

\* The loop leaving at its first match.
RECURSIVE overlap_loop_first_match(_, _, _, _, _)
overlap_loop_first_match(trailing, new_words, overlap_len, max_overlap, best) ==
    IF overlap_len > max_overlap THEN best
    ELSE LET trailing_suffix == SubSeq(trailing, Len(trailing) - overlap_len + 1,
                                       Len(trailing))
             new_prefix == [i \in 1 .. overlap_len |-> to_lowercase(new_words[i])]
         IN  IF trailing_suffix = new_prefix THEN overlap_len
             ELSE overlap_loop_first_match(trailing, new_words, overlap_len + 1,
                                           max_overlap, best)

\* markdown.rs:140-150: the loop over overlap_len, from overlap_len upwards;
\* best is best_overlap so far.
RECURSIVE overlap_loop(_, _, _, _, _)
overlap_loop(trailing, new_words, overlap_len, max_overlap, best) ==
    IF overlap_len > max_overlap THEN best
    ELSE LET trailing_suffix == SubSeq(trailing, Len(trailing) - overlap_len + 1,
                                       Len(trailing))
             new_prefix == [i \in 1 .. overlap_len |-> to_lowercase(new_words[i])]
         IN  overlap_loop(trailing, new_words, overlap_len + 1, max_overlap,
                          IF trailing_suffix = new_prefix THEN overlap_len ELSE best)

Min(a, b) == IF a <= b THEN a ELSE b

\* MarkdownWriter::deduplicate_overlap (markdown.rs:125-158)
deduplicate_overlap(trailing, text) ==
    IF trailing = <<>> THEN text
    ELSE LET new_words == split_whitespace(text)
         IN  IF new_words = <<>> THEN <<>>
             ELSE LET max_overlap == Min(Len(trailing), Len(new_words))
                      best_overlap == overlap_loop(trailing, new_words, 1,
                                                   max_overlap, 0)
                  IN  IF best_overlap > 0
                      THEN join(SubSeq(new_words, best_overlap + 1, Len(new_words)))
                      ELSE text

\* Option<T>
None == <<>>

Some(v) == <<v>>

\* The local dates and minutes of the model.
Dates == {"2024-01-01", "2024-01-02"}

Minutes == {"10:00", "10:01"}

\* format!("# {weekday}, {month} {day}, {year}\n\n") (markdown.rs:113-117)
day_header(date) ==
    <<"# ", (CASE date = "2024-01-01" -> "Mon, January 1, 2024"
               [] date = "2024-01-02" -> "Tue, January 2, 2024"), "\n", "\n">>

\* writeln!(entry, "## {time_str}\n") (markdown.rs:68)
time_heading(time_str) == <<"## ", time_str, "\n", "\n">>

\* The segment line with one line end only.
segment_line_single_newline(speaker, text) ==
    IF speaker # None THEN <<"**", speaker[1], ":** ">> \o text \o <<"\n">>
    ELSE text \o <<"\n">>

\* writeln!(entry, "**{name}:** {text}\n") or writeln!(entry, "{text}\n")
\* (markdown.rs:71-75): the format string ends in a line end and writeln!
\* adds one.
segment_line(speaker, text) ==
    IF speaker # None THEN <<"**", speaker[1], ":** ">> \o text \o <<"\n", "\n">>
    ELSE text \o <<"\n", "\n">>

\* text.split_whitespace().rev().take(20).map(to_lowercase), reversed
\* (markdown.rs:87-93): the last 20 words, lowercased.
trailing_words(text) ==
    LET words == split_whitespace(text)
        kept == SubSeq(words, IF Len(words) > TRAILING_WORDS
                              THEN Len(words) - TRAILING_WORDS + 1 ELSE 1, Len(words))
    IN  [i \in 1 .. Len(kept) |-> to_lowercase(kept[i])]

\* What fs::write can do to a path that does not exist.
WriteOutcomes == {"ok", "failed", "failed_created"}

\* write_day_header that writes the header whether or not the file exists.
write_day_header_always(fs, date, outcome) ==
    CASE outcome = "ok" -> [files |-> [fs EXCEPT ![date] = Some(day_header(date))],
                            ok |-> TRUE]
      [] outcome = "failed" -> [files |-> fs, ok |-> FALSE]
      [] outcome = "failed_created" ->
            [files |-> [fs EXCEPT ![date] = Some(<<>>)], ok |-> FALSE]

\* MarkdownWriter::write_day_header (markdown.rs:107-122); outcome is what
\* fs::write does when it is reached.
write_day_header(fs, date, outcome) ==
    IF fs[date] # None THEN [files |-> fs, ok |-> TRUE]
    ELSE CASE outcome = "ok" ->
                 [files |-> [fs EXCEPT ![date] = Some(day_header(date))], ok |-> TRUE]
           [] outcome = "failed" -> [files |-> fs, ok |-> FALSE]
           [] outcome = "failed_created" ->
                 [files |-> [fs EXCEPT ![date] = Some(<<>>)], ok |-> FALSE]

\* What opening the daily file for append and write_all can do: the open
\* fails, or the write fails after at most n_written tokens of the entry and
\* before its last, or both succeed.
AppendOutcomes == {"ok", "open_failed", "write_failed"}

\* OpenOptions::new().create(true).append(true).open(path) and
\* file.write_all(entry) (markdown.rs:78-86).
append(fs, date, entry, outcome, n_written) ==
    LET content == IF fs[date] = None THEN <<>> ELSE fs[date][1]
    IN  CASE outcome = "ok" ->
               [files |-> [fs EXCEPT ![date] = Some(content \o entry)], ok |-> TRUE]
          [] outcome = "open_failed" -> [files |-> fs, ok |-> FALSE]
          [] outcome = "write_failed" ->
               [files |-> [fs EXCEPT ![date] =
                              Some(content \o SubSeq(entry, 1,
                                      Min(n_written, Len(entry) - 1)))],
                ok |-> FALSE]

\* The fields of a writer.
Writer(ts, date, time, words) ==
    [timestamps |-> ts, current_date |-> date, last_time |-> time,
     last_trailing_words |-> words]

\* MarkdownWriter::write_segment (markdown.rs:38-97) on writer w and the
\* directory fs: the writer and the directory it leaves, what it returns,
\* the deduplicated text and the entry it built.
write_segment(w, fs, segment, speaker, header_outcome, append_outcome, n_written) ==
    LET date == segment.timestamp.date
        needs_header == w.current_date # Some(date)
        w1 == IF needs_header THEN Writer(w.timestamps, Some(date), None, <<>>) ELSE w
        hdr == IF needs_header THEN write_day_header(fs, date, header_outcome)
               ELSE [files |-> fs, ok |-> TRUE]
        text == deduplicate_overlap(w1.last_trailing_words, segment.text)
        time_str == segment.timestamp.time
        new_minute == w1.timestamps /\ w1.last_time # Some(time_str)
        w2 == IF new_minute THEN [w1 EXCEPT !.last_time = Some(time_str)] ELSE w1
        entry == (IF new_minute THEN time_heading(time_str) ELSE <<>>)
                    \o segment_line(speaker, text)
        app == append(hdr.files, date, entry, append_outcome, n_written)
    IN  IF ~hdr.ok
        THEN [w |-> w1, files |-> hdr.files, ok |-> FALSE, text |-> <<>>,
              entry |-> <<>>]
        ELSE IF text = <<>>
        THEN [w |-> w1, files |-> hdr.files, ok |-> TRUE, text |-> Some(text),
              entry |-> <<>>]
        ELSE IF ~app.ok
        THEN [w |-> w2, files |-> app.files, ok |-> FALSE, text |-> Some(text),
              entry |-> entry]
        ELSE [w |-> [w2 EXCEPT !.last_trailing_words = trailing_words(text)],
              files |-> app.files, ok |-> TRUE, text |-> Some(text),
              entry |-> entry]

\* The writer of the state.
ThisWriter == Writer(timestamps, current_date, last_time, last_trailing_words)

\* No writer, and an output directory without daily files.
MdStart ==
    /\ files = [d \in Dates |-> None]
    /\ timestamps = TRUE
    /\ current_date = None
    /\ last_time = None
    /\ last_trailing_words = <<>>
    /\ md_op = "none"
    /\ md_segment = <<>>
    /\ md_text = <<>>
    /\ md_entry = <<>>
    /\ md_result = "ok"
    /\ headed = None
    /\ md_calls = 0

\* MarkdownWriter::new (markdown.rs:24-35) on the directory fs.
MarkdownWriter(ts, fs) ==
    /\ files = fs
    /\ timestamps = ts
    /\ current_date = None
    /\ last_time = None
    /\ last_trailing_words = <<>>
    /\ md_op = "new"
    /\ md_segment = <<>>
    /\ md_text = <<>>
    /\ md_entry = <<>>
    /\ md_result = "ok"
    /\ headed = None
    /\ md_calls = 0

\* The program is started again on the same directory: a new writer.
Restart ==
    /\ md_op = "write"
    /\ current_date' = None
    /\ last_time' = None
    /\ last_trailing_words' = <<>>
    /\ md_op' = "new"
    /\ md_segment' = <<>>
    /\ md_text' = <<>>
    /\ md_entry' = <<>>
    /\ md_result' = "ok"
    /\ headed' = None
    /\ UNCHANGED <<files, timestamps, md_calls>>
    /\ UNCHANGED exceptMd

\* Whether the tokens of entry that reached the file hold its time heading.
HeadingWritten(r, outcome, n_written) ==
    /\ r.entry # <<>> /\ r.entry[1] = "## "
    /\ outcome = "ok" \/ (outcome = "write_failed" /\ n_written >= 4)

\* writer.write_segment(segment, speaker) (recording.rs:133 and :173)
WriteSegment(segment, speaker) ==
    /\ md_op \in {"new", "write"}
    /\ md_calls < MaxCalls
    /\ \E header_outcome \in WriteOutcomes, append_outcome \in AppendOutcomes :
       \E n_written \in {0, 4} :
          LET r == write_segment(ThisWriter, files, segment, speaker,
                                 header_outcome, append_outcome, n_written)
              reached_header == /\ current_date # Some(segment.timestamp.date)
                                /\ files[segment.timestamp.date] = None
              reached_append == r.entry # <<>>
          IN  /\ ~reached_header => header_outcome = "ok"
              /\ ~reached_append => append_outcome = "ok"
              /\ append_outcome = "write_failed" <=> n_written = 4
              /\ files' = r.files
              /\ current_date' = r.w.current_date
              /\ last_time' = r.w.last_time
              /\ last_trailing_words' = r.w.last_trailing_words
              /\ md_text' = r.text
              /\ md_entry' = r.entry
              /\ md_result' = IF r.ok THEN "ok" ELSE "err"
              /\ headed' = IF HeadingWritten(r, append_outcome, n_written)
                            THEN Some(segment.timestamp.time)
                            ELSE IF current_date # Some(segment.timestamp.date)
                                 THEN None ELSE headed
    /\ md_op' = "write"
    /\ md_segment' = <<[segment |-> segment, speaker |-> speaker]>>
    /\ md_calls' = md_calls + 1
    /\ UNCHANGED timestamps
    /\ UNCHANGED exceptMd

\* writer.deduplicate_overlap(text), as the unit tests call it.
DeduplicateOverlap(text) ==
    /\ md_op = "new"
    /\ md_op' = "dedup"
    /\ md_segment' = <<text>>
    /\ md_text' = Some(deduplicate_overlap(last_trailing_words, text))
    /\ UNCHANGED <<files, timestamps, current_date, last_time, last_trailing_words,
                   md_entry, md_result, headed, md_calls>>
    /\ UNCHANGED exceptMd

(***************************************************************************)
(* The speaker identifier (speaker/identify.rs).                           *)
(***************************************************************************)
\* No identifier: the STT worker has not reached recording.rs:64.
SpkStart ==
    /\ profiles = <<>>
    /\ min_confidence = 0
    /\ filter_unknown = FALSE
    /\ updates_since_save = 0
    /\ profiles_dir = <<>>
    /\ sp_op = "none"
    /\ sp_samples = 0
    /\ sp_embeddings = <<>>
    /\ sp_result = <<>>
    /\ sp_before = <<>>
    /\ sp_calls = 0

\* Speaker ID window and shortest usable window (identify.rs:24 and :27):
\* three seconds and one second of samples.
SEGMENT_SAMPLES == SAMPLE_RATE * 3

MIN_SEGMENT_SAMPLES == SAMPLE_RATE

\* f32 comparison: every comparison with NaN is false.
gt(a, b) == a # NaN /\ b # NaN /\ a > b

ge(a, b) == a # NaN /\ b # NaN /\ a >= b

\* What cosine_similarity can return for an embedding and a profile, what
\* min_confidence is configured to, and the names of the enrolled.
ScoreVals == {NaN, 30, 60, 85, 95}

MinConfidences == {60, 90}

Names == <<"Erik", "Ana", "Kim", "Lee">>

\* What one extract_embedding call returns: an error, or an embedding, which
\* the model keeps as its cosine score against each of the n profiles.
EmbeddingErr(n) == [ok |-> FALSE, scores |-> [i \in 1 .. n |-> NaN]]

Embeddings(n) ==
    {[ok |-> TRUE, scores |-> sc] : sc \in [1 .. n -> ScoreVals]}
    \cup {EmbeddingErr(n)}

\* identify.rs:93-98: the number of windows the for loop reaches before it
\* ends or breaks on a window shorter than MIN_SEGMENT_SAMPLES.
RECURSIVE n_windows(_, _)
n_windows(window_start, len) ==
    IF window_start >= len THEN 0
    ELSE LET window_end == IF window_start + SEGMENT_SAMPLES < len
                          THEN window_start + SEGMENT_SAMPLES ELSE len
         IN  IF window_end - window_start < MIN_SEGMENT_SAMPLES THEN 0
             ELSE 1 + n_windows(window_start + SEGMENT_SAMPLES, len)

\* identify.rs:103-110 and 116-123: the loop over the profiles.
RECURSIVE score_profiles(_, _, _)
score_profiles(best, scores, i) ==
    IF i > Len(scores) THEN best
    ELSE score_profiles(
             IF gt(scores[i], best.score)
             THEN [score |-> scores[i], idx |-> i, some |-> TRUE] ELSE best,
             scores, i + 1)

\* identify.rs:93-111: the loop over the windows; embs are the results of
\* the extract_embedding calls, the first Err ends identify.
RECURSIVE scan_windows(_, _, _)
scan_windows(best, embs, used) ==
    IF embs = <<>> THEN [ok |-> TRUE, best |-> best, used |-> used]
    ELSE IF ~Head(embs).ok THEN [ok |-> FALSE, best |-> best, used |-> used + 1]
    ELSE scan_windows(score_profiles(best, Head(embs).scores, 1), Tail(embs),
                      used + 1)

\* identify.rs:113-124: the fallback on the whole audio.
fallback(w, emb) ==
    IF ~w.ok \/ w.best.some THEN w
    ELSE IF ~emb.ok THEN [ok |-> FALSE, best |-> w.best, used |-> w.used + 1]
    ELSE [ok |-> TRUE, best |-> score_profiles(w.best, emb.scores, 1),
          used |-> w.used + 1]

\* Result<Option<SpeakerMatch>>
SpeakerMatch(name, confidence) ==
    [kind |-> "Some", name |-> name, confidence |-> confidence]

NoMatch == [kind |-> "None", name |-> None, confidence |-> 0]

SpeakerErr == [kind |-> "Err", name |-> None, confidence |-> 0]

\* save_profiles (identify.rs:172-179): each profile.save writes the file of
\* the profile or fails, which is logged.
save_profiles(profs, dir, saved) ==
    [i \in 1 .. Len(profs) |-> IF saved[i] THEN profs[i].embedding ELSE dir[i]]

\* The update of identify.rs:137-155 applied whenever the score reaches
\* min_confidence.
refine_always(id, dir, best, saved) ==
    LET profs == [id.profiles EXCEPT ![best.idx].embedding = @ + 1]
        n == id.updates_since_save + 1
    IN  IF n >= SAVE_INTERVAL
        THEN [id  |-> [id EXCEPT !.profiles = profs, !.updates_since_save = 0],
              dir |-> save_profiles(profs, dir, saved), saves |-> TRUE]
        ELSE [id  |-> [id EXCEPT !.profiles = profs, !.updates_since_save = n],
              dir |-> dir, saves |-> FALSE]

\* identify.rs:134-156: the refinement of the best profile by the moving
\* average, the counter and the periodic save.
refine(id, dir, best, saved) ==
    IF ge(best.score, EMA_UPDATE_THRESHOLD)
    THEN LET profs == [id.profiles EXCEPT ![best.idx].embedding = @ + 1]
             n == id.updates_since_save + 1
         IN  IF n >= SAVE_INTERVAL
             THEN [id  |-> [id EXCEPT !.profiles = profs,
                                      !.updates_since_save = 0],
                   dir |-> save_profiles(profs, dir, saved), saves |-> TRUE]
             ELSE [id  |-> [id EXCEPT !.profiles = profs,
                                      !.updates_since_save = n],
                   dir |-> dir, saves |-> FALSE]
    ELSE [id |-> id, dir |-> dir, saves |-> FALSE]

\* SpeakerIdentifier::identify (identify.rs:76-169) on samples of length
\* len.  embs are the results of the extract_embedding calls: one for each
\* window, and a last one for the fallback.
identify(id, dir, len, embs, saved) ==
    LET nw == n_windows(0, len)
        start == [score |-> NEG_INFINITY, idx |-> 1, some |-> FALSE]
        b == fallback(scan_windows(start, SubSeq(embs, 1, nw), 0), embs[nw + 1])
        same == [id |-> id, dir |-> dir, saves |-> FALSE]
    IN  IF id.profiles = <<>>
        THEN [st |-> same, result |-> SpeakerMatch(None, 0), used |-> 0]
        ELSE IF ~b.ok
        THEN [st |-> same, result |-> SpeakerErr, used |-> b.used]
        ELSE IF ~b.best.some
        THEN [st |-> same, result |-> SpeakerMatch(None, 0), used |-> b.used]
        ELSE IF ge(b.best.score, id.min_confidence)
        THEN [st |-> refine(id, dir, b.best, saved),
              result |-> SpeakerMatch(Some(id.profiles[b.best.idx].name),
                                      b.best.score),
              used |-> b.used]
        ELSE IF id.filter_unknown
        THEN [st |-> same, result |-> NoMatch, used |-> b.used]
        ELSE [st |-> same, result |-> SpeakerMatch(None, b.best.score),
              used |-> b.used]

\* recording.rs:80-89: the speaker name the STT worker attaches.
speaker_name(result) == IF result.kind = "Some" THEN result.name ELSE None

\* The identifier of the state.
ThisIdentifier ==
    [profiles |-> profiles, min_confidence |-> min_confidence,
     filter_unknown |-> filter_unknown,
     updates_since_save |-> updates_since_save]

\* SpeakerIdentifier::new (identify.rs:47-64) on a directory of n profiles.
SpeakerIdentifier(n, mc, fu) ==
    /\ profiles = [i \in 1 .. n |-> [name |-> Names[i], embedding |-> 0]]
    /\ min_confidence = mc
    /\ filter_unknown = fu
    /\ updates_since_save = 0
    /\ profiles_dir = [i \in 1 .. n |-> 0]
    /\ sp_op = "new"
    /\ sp_samples = 0
    /\ sp_embeddings = <<>>
    /\ sp_result = <<>>
    /\ sp_before = <<>>
    /\ sp_calls = 0

\* An identifier that has refined its first profile k times since it was
\* built, k below SAVE_INTERVAL.
Refined(n, mc, fu, k) ==
    /\ profiles = [i \in 1 .. n |->
                     [name |-> Names[i], embedding |-> IF i = 1 THEN k ELSE 0]]
    /\ min_confidence = mc
    /\ filter_unknown = fu
    /\ updates_since_save = k
    /\ profiles_dir = [i \in 1 .. n |-> 0]
    /\ sp_op = "new"
    /\ sp_samples = 0
    /\ sp_embeddings = <<>>
    /\ sp_result = <<>>
    /\ sp_before = <<>>
    /\ sp_calls = 0

\* id.identify(&chunk.samples_f32) (recording.rs:81).  The results of the
\* extract_embedding calls that are not made, and of the saves that are not
\* made, are fixed.
Identify(len, embs, saved) ==
    /\ sp_op \in {"new", "identify"}
    /\ LET r == identify(ThisIdentifier, profiles_dir, len, embs, saved)
       IN  /\ \A i \in r.used + 1 .. Len(embs) : ~embs[i].ok
           /\ ~r.st.saves => \A i \in DOMAIN saved : saved[i]
           /\ profiles' = r.st.id.profiles
           /\ updates_since_save' = r.st.id.updates_since_save
           /\ profiles_dir' = r.st.dir
           /\ sp_result' = <<r.result>>
           /\ sp_embeddings' = SubSeq(embs, 1, r.used)
    /\ sp_op' = "identify"
    /\ sp_samples' = len
    /\ sp_before' = profiles
    /\ sp_calls' = sp_calls + 1
    /\ UNCHANGED <<min_confidence, filter_unknown>>
    /\ UNCHANGED exceptSpk

\* id.flush() when the STT worker leaves its loop (recording.rs:102-105,
\* identify.rs:182-186).
FlushProfiles(saved) ==
    /\ sp_op \in {"new", "identify"}
    /\ updates_since_save = 0 => \A i \in DOMAIN saved : saved[i]
    /\ profiles_dir' = IF updates_since_save > 0
                       THEN save_profiles(profiles, profiles_dir, saved)
                       ELSE profiles_dir
    /\ sp_op' = "flush"
    /\ UNCHANGED <<profiles, min_confidence, filter_unknown, updates_since_save,
                   sp_samples, sp_embeddings, sp_result, sp_before, sp_calls>>
    /\ UNCHANGED exceptSpk

(***************************************************************************)
(* The transcription backends (stt/).                                      *)
(***************************************************************************)
\* No transcribe call yet.
TxStart ==
    /\ tx_op = "none"
    /\ tx_backend = "whisper"
    /\ tx_heard = <<>>
    /\ tx_segments = <<>>

\* The STT worker before its loop.
WorkerStart == SpkStart /\ TxStart

\* The characters of a heard text.
HeardChars == {"A", " ", "[", "]"}

HeardTexts == UNION {[1 .. n -> HeardChars] : n \in 0 .. MaxHeard}

\* char::is_whitespace on the characters above.
is_whitespace(c) == c = " "

\* str::trim_start, str::trim_end and str::trim.
RECURSIVE trim_start(_)
trim_start(text) ==
    IF Len(text) > 0 /\ is_whitespace(text[1])
    THEN trim_start(SubSeq(text, 2, Len(text)))
    ELSE text

RECURSIVE trim_end(_)
trim_end(text) ==
    IF Len(text) > 0 /\ is_whitespace(text[Len(text)])
    THEN trim_end(SubSeq(text, 1, Len(text) - 1))
    ELSE text

trim(text) == trim_end(trim_start(text))

\* str::starts_with and str::ends_with on a character, str::contains on a
\* string.
starts_with(text, c) == Len(text) > 0 /\ text[1] = c

ends_with(text, c) == Len(text) > 0 /\ text[Len(text)] = c

contains(text, pat) ==
    \E i \in 0 .. Len(text) - Len(pat) : SubSeq(text, i + 1, i + Len(pat)) = pat

\* is_hallucinated_noise (whisper.rs:15-24).
is_hallucinated_noise(text) ==
    LET lower_text == to_lowercase(text)
    IN  \/ starts_with(lower_text, "[") /\ ends_with(lower_text, "]")
        \/ starts_with(lower_text, "(") /\ ends_with(lower_text, ")")
        \/ /\ contains(lower_text, <<"t", "h", "a", "n", "k", " ", "y", "o", "u">>)
           /\ Len(lower_text) < 30
        \/ contains(lower_text, <<"t", "h", "a", "n", "k", "s", " ", "f", "o", "r",
                                  " ", "w", "a", "t", "c", "h", "i", "n", "g">>)
        \/ contains(lower_text, <<"s", "u", "b", "s", "c", "r", "i", "b", "e">>)

\* Result<Vec<TranscriptionSegment>>; of a segment the text is kept.
TranscriptionSegment(text) == [text |-> text]

TxOk(segments) == [ok |-> TRUE, segments |-> segments]

TxErr == [ok |-> FALSE, segments |-> <<>>]

\* WhisperEngine::transcribe: the loop over the segments of the state, from
\* segment i on.
RECURSIVE whisper_segments(_, _, _)
whisper_segments(state, i, segments) ==
    IF i > Len(state)
    THEN TxOk(segments)
    ELSE LET segment == state[i]
         IN  IF segment.no_speech_prob > NO_SPEECH_THRESHOLD
             THEN whisper_segments(state, i + 1, segments)
             ELSE IF ~segment.utf8
             THEN TxErr
             ELSE LET text == trim(segment.text)
                  IN  IF Len(text) = 0 \/ is_hallucinated_noise(text)
                      THEN whisper_segments(state, i + 1, segments)
                      ELSE whisper_segments(state, i + 1,
                               Append(segments, TranscriptionSegment(text)))

whisper_transcribe(heard) ==
    IF ~heard.full THEN TxErr ELSE whisper_segments(heard.state, 1, <<>>)

\* VoskEngine::transcribe.
vosk_transcribe(heard) ==
    LET text == trim(IF heard.single THEN heard.text ELSE <<>>)
    IN  IF Len(text) = 0
        THEN TxOk(<<>>)
        ELSE TxOk(<<TranscriptionSegment(text)>>)

\* OpenAiEngine::transcribe.
openai_transcribe(heard) ==
    IF ~heard.ok
    THEN TxErr
    ELSE LET response == heard.response
             text == trim(response.text)
         IN  IF Len(text) = 0
             THEN TxOk(<<>>)
             ELSE IF response.words.some
             THEN TxOk([i \in 1 .. Len(response.words.words) |->
                           TranscriptionSegment(response.words.words[i].word)])
             ELSE TxOk(<<TranscriptionSegment(text)>>)

\* engine.transcribe(&chunk) of the engine create_engine made.
transcribe(backend, heard) ==
    CASE backend = "whisper" -> whisper_transcribe(heard)
      [] backend = "vosk" -> vosk_transcribe(heard)
      [] backend = "openai" -> openai_transcribe(heard)

\* The STT worker's call of transcribe on a chunk for which the recogniser
\* or the service answers tx_heard.
Transcribe ==
    /\ tx_op = "none"
    /\ tx_op' = "transcribe"
    /\ tx_segments' = transcribe(tx_backend, tx_heard)
    /\ UNCHANGED <<tx_backend, tx_heard>>
    /\ UNCHANGED exceptTx

(***************************************************************************)
(* Specifications                                                          *)
(***************************************************************************)
\* The orderer alone; the pipeline stays as constructed.
UnitStart ==
    AccStart /\ CodecStart(Filled(1, 32)) /\ ConvStart /\ UdpStart /\ MdStart /\ WorkerStart

OrdInit == OrdStart /\ PipeStart /\ udp_alive = FALSE /\ UnitStart

OrdNext == \E s \in Serials : Insert(s)

OrdSpec == OrdInit /\ [][OrdNext]_vars

\* The pipeline alone; the orderer stays as constructed.
PipeInit ==
    PipeStart /\ OrdStart /\ backlog = 0 /\ overflow_checks = FALSE /\ UnitStart

\* The steps of the program's own threads and tasks.
SystemNext ==
    \/ AudioStart \/ AudioRecv \/ AudioSend \/ AudioFlush \/ AudioFlushSend
    \/ UdpExit
    \/ MainSelectChunk \/ MainSttSend \/ MainSelectResult \/ MainSelectShutdown
    \/ MainShutdown \/ MainDrainRecv \/ MainDrainSend \/ MainDrainResults
    \/ SttCreateEngine \/ SttRecv \/ SttSend

PipeNext == CaptureCallback \/ ShutdownSignal \/ SystemNext

PipeSpec == PipeInit /\ [][PipeNext]_vars

\* Scheduling: every OS thread and every task of the runtime keeps running
\* while it has a step to take; tokio::select! picks among its ready
\* branches at random, so a branch that is ready again and again is taken.
\* The UDP server task is only known to end once it is cancelled.  The
\* device callback and Ctrl+C are the environment's.
FairPipeSpec ==
    /\ PipeSpec
    /\ WF_vars(AudioStart \/ AudioRecv \/ AudioSend \/ AudioFlush \/ AudioFlushSend)
    /\ WF_vars(UdpExit /\ mainPc \notin {"select", "stt_send", "shutdown"})
    /\ WF_vars(MainSttSend \/ MainShutdown \/ MainDrainRecv \/ MainDrainSend
                  \/ MainDrainResults)
    /\ SF_vars(MainSelectChunk)
    /\ SF_vars(MainSelectResult)
    /\ SF_vars(MainSelectShutdown)
    /\ WF_vars(SttCreateEngine \/ SttRecv \/ SttSend)

\* The accumulator alone, for every chunk length and every shorter overlap.
AccInit ==
    /\ \E d \in 1 .. MaxSecs : \E o \in 0 .. d - 1 : \E t \in Times : new(d, o, t)
    /\ OrdStart /\ backlog = 0 /\ overflow_checks = FALSE
    /\ PipeStart /\ udp_alive = FALSE
    /\ CodecStart(Filled(1, 32)) /\ ConvStart /\ UdpStart /\ MdStart /\ WorkerStart

AccNext ==
    \/ \E n \in 0 .. MaxFeedLen : \E t0 \in Times : Feed(n, t0)
    \/ Flush

AccSpec == AccInit /\ [][AccNext]_vars

\* The accumulator of an audio thread started from any configuration that
\* Config::load returns (config.rs:104-113 and 311-334: two u64 fields, no
\* relation between them is checked), in both builds.
ConfigInit ==
    /\ \E d \in 0 .. MaxSecs : \E o \in 0 .. MaxSecs : \E t \in Times : new(d, o, t)
    /\ OrdStart /\ backlog = 0
    /\ PipeStart /\ udp_alive = FALSE
    /\ CodecStart(Filled(1, 32)) /\ ConvStart /\ UdpStart /\ MdStart /\ WorkerStart

ConfigNext == \E n \in 0 .. MaxFeedLen : \E t0 \in Times : FeedConfigured(n, t0)

ConfigSpec == ConfigInit /\ [][ConfigNext]_vars

\* from_samples on every slice of at most two samples.
ConvInit ==
    /\ conv_in \in {<<>>} \cup {<<a>> : a \in F32} \cup {<<a, b>> : a \in F32, b \in F32}
    /\ conv_out = <<>>
    /\ OrdStart /\ backlog = 0 /\ overflow_checks = FALSE
    /\ PipeStart /\ udp_alive = FALSE
    /\ AccStart /\ CodecStart(Filled(1, 32)) /\ UdpStart /\ MdStart /\ WorkerStart

ConvNext == \E t \in Times : FromSamples(t)

ConvSpec == ConvInit /\ [][ConvNext]_vars

\* One context, keyed at first with any key, sealing and opening packets.
CodecInit ==
    /\ \E k \in Keys : CodecStart(k)
    /\ OrdStart /\ backlog = 0 /\ overflow_checks = FALSE
    /\ PipeStart /\ udp_alive = FALSE
    /\ AccStart /\ ConvStart /\ UdpStart /\ MdStart /\ WorkerStart

CodecNext ==
    \/ \E serial \in {0, 1, U64_MAX}, ty \in MessageTypes, data \in BytesUpTo(MaxData),
          nonce \in Nonces : Encode(serial, ty, data, nonce)
    \/ \E k \in Keys : UpdateKey(k)
    \/ Decode

CodecSpec == CodecInit /\ [][CodecNext]_vars

\* The codec with a network between encode_packet and decode_packet that
\* may rewrite the serial of a datagram.
WireInit == CodecInit

WireNext ==
    \/ CodecNext
    \/ \E serial \in {0, 1, U64_MAX} : AlterSerial(serial)

WireSpec == WireInit /\ [][WireNext]_vars

\* The datagram receiver alone, from bind on.  run_recording spawns the
\* server on the runtime (recording.rs:27) and holds the receiver of the
\* chunks until it returns; the key file holds [1; 32].
UdpInit ==
    /\ \E B \in {0, MaxUdpBacklog}, fw \in BOOLEAN : bind(B, fw, TRUE, Filled(1, 32))
    /\ OrdStart /\ backlog = 0 /\ overflow_checks = FALSE
    /\ PipeStart /\ udp_alive = FALSE
    /\ AccStart /\ CodecStart(Filled(1, 32)) /\ ConvStart /\ MdStart /\ WorkerStart

UdpNext ==
    \/ \E data \in Arriving[udp_crypto.key_bytes] : HandlePacket(data)
    \/ \E now \in Times : Cancel(now)

UdpSpec == UdpInit /\ [][UdpNext]_vars

\* The receiver on a network that delivers a handled datagram again.
ReplayInit == UdpInit

ReplayNext ==
    \/ \E data \in Arriving[udp_crypto.key_bytes] : HandlePacket(data)
    \/ \E data \in Arriving[udp_crypto.key_bytes] : HandleAndKeep(data)
    \/ Redeliver
    \/ \E now \in Times : Cancel(now)

ReplaySpec == ReplayInit /\ [][ReplayNext]_vars

\* The receiver and runs of the sender against it.
ResumeInit == UdpInit

ResumeNext ==
    \/ \E len \in 0 .. MaxFile : RunSender(len)
    \/ SendAudio
    \/ SendEndOfStream

ResumeSpec == ResumeInit /\ [][ResumeNext]_vars

\* One identify call on an identifier with any number of profiles, fresh or
\* one update before its periodic save, for every length of audio around
\* the window sizes and every result of the embedding model.
IdentifyLens ==
    {0, MIN_SEGMENT_SAMPLES, SEGMENT_SAMPLES + 1,
     SEGMENT_SAMPLES + MIN_SEGMENT_SAMPLES}

SpeakerStart ==
    /\ OrdStart /\ backlog = 0 /\ overflow_checks = FALSE
    /\ PipeStart /\ udp_alive = FALSE
    /\ AccStart /\ CodecStart(Filled(1, 32)) /\ ConvStart /\ UdpStart /\ MdStart
    /\ TxStart

IdentifyInit ==
    /\ \E n \in 0 .. MaxProfiles, mc \in MinConfidences, fu \in BOOLEAN :
          \/ SpeakerIdentifier(n, mc, fu)
          \/ n > 0 /\ fu /\ Refined(n, mc, fu, SAVE_INTERVAL - 1)
    /\ SpeakerStart

\* The results of the extract_embedding calls of one identify call: one for
\* each window, and one for the fallback if the call gets there.
EmbeddingResults(len, n) ==
    LET start == [score |-> NEG_INFINITY, idx |-> 1, some |-> FALSE]
    IN  UNION {{Append(ws, fb) :
                  fb \in IF fallback(scan_windows(start, ws, 0),
                                     EmbeddingErr(n)).used > Len(ws)
                         THEN Embeddings(n) ELSE {EmbeddingErr(n)}} :
               ws \in [1 .. n_windows(0, len) -> Embeddings(n)]}

\* The results of the profile.save calls, if there can be any: all files
\* are written, all but the first, or none.
SaveResults(n) ==
    IF updates_since_save + 1 >= SAVE_INTERVAL
    THEN {[i \in 1 .. n |-> TRUE], [i \in 1 .. n |-> i # 1],
          [i \in 1 .. n |-> FALSE]}
    ELSE {[i \in 1 .. n |-> TRUE]}

IdentifyNext ==
    /\ sp_calls = 0
    /\ \E len \in IdentifyLens :
          \E embs \in EmbeddingResults(len, Len(profiles)) :
             \E saved \in SaveResults(Len(profiles)) :
                Identify(len, embs, saved)

IdentifySpec == IdentifyInit /\ [][IdentifyNext]_vars

\* A run of identify calls on one-window audio with scores on both sides of
\* the update threshold, then the flush of the worker's exit.
SaveInit ==
    /\ \E n \in 1 .. MaxProfiles, fu \in BOOLEAN : SpeakerIdentifier(n, 60, fu)
    /\ SpeakerStart

SaveNext ==
    \/ \E sc \in [1 .. Len(profiles) -> {60, 95}] :
          \E saved \in SaveResults(Len(profiles)) :
             /\ sp_calls < MaxIdentify
             /\ Identify(MIN_SEGMENT_SAMPLES,
                         <<[ok |-> TRUE, scores |-> sc],
                           EmbeddingErr(Len(profiles))>>,
                         saved)
    \/ \E saved \in {[i \in 1 .. Len(profiles) |-> TRUE],
                       [i \in 1 .. Len(profiles) |-> FALSE]} : FlushProfiles(saved)

SaveSpec == SaveInit /\ [][SaveNext]_vars

\* The STT worker's transcriptions with one engine: what whisper.cpp puts in
\* its state, what the Vosk recogniser returns, what the service answers.
Backends == {"whisper", "vosk", "openai"}

WhisperSegments ==
    [no_speech_prob : {NO_SPEECH_THRESHOLD, NO_SPEECH_THRESHOLD + 10},
     utf8 : BOOLEAN, text : HeardTexts]

WhisperHeard ==
    {[full |-> FALSE, state |-> <<>>]}
        \cup {[full |-> TRUE, state |-> s] :
                s \in UNION {[1 .. n -> WhisperSegments] : n \in 0 .. MaxWords}}

VoskHeard == [single : BOOLEAN, text : HeardTexts]

OpenAiWords ==
    {[some |-> FALSE, words |-> <<>>]}
        \cup {[some |-> TRUE, words |-> w] :
                w \in UNION {[1 .. n -> [word : HeardTexts]] : n \in 0 .. MaxWords}}

OpenAiHeard ==
    {[ok |-> FALSE, response |-> [text |-> <<>>, words |-> [some |-> FALSE, words |-> <<>>]]]}
        \cup {[ok |-> TRUE, response |-> r] :
                r \in [text : HeardTexts, words : OpenAiWords]}

Heard(backend) ==
    CASE backend = "whisper" -> WhisperHeard
      [] backend = "vosk" -> VoskHeard
      [] backend = "openai" -> OpenAiHeard

TxInit ==
    /\ OrdStart /\ backlog = 0 /\ overflow_checks = FALSE
    /\ PipeStart /\ udp_alive = FALSE
    /\ AccStart /\ CodecStart(Filled(1, 32)) /\ ConvStart /\ UdpStart /\ MdStart
    /\ SpkStart
    /\ tx_op = "none"
    /\ tx_backend \in Backends
    /\ tx_heard \in Heard(tx_backend)
    /\ tx_segments = <<>>

TxNext == Transcribe

TxSpec == TxInit /\ [][TxNext]_vars

\* The two producers of chunks.  They share no state, so a run follows one
\* of them: the accumulator with the datagram receiver disabled, or the
\* datagram receiver before the audio thread has built its accumulator.
ChunkInit ==
    /\ \/ /\ \E d \in 1 .. MaxSecs : \E o \in 0 .. d - 1 : \E t \in Times : new(d, o, t)
          /\ UdpStart
       \/ /\ AccStart
          /\ \E B \in {0, MaxUdpBacklog}, fw \in BOOLEAN :
                bind(B, fw, TRUE, Filled(1, 32))
    /\ OrdStart /\ backlog = 0 /\ overflow_checks = FALSE
    /\ PipeStart /\ udp_alive = FALSE
    /\ CodecStart(Filled(1, 32)) /\ ConvStart /\ MdStart /\ WorkerStart

ChunkNext == AccNext \/ UdpNext

ChunkSpec == ChunkInit /\ [][ChunkNext]_vars

\* deduplicate_overlap alone, on a writer built with any stored trailing
\* words (as tests::deduplicates_overlap builds it) and any text.
RECURSIVE SeqsUpTo(_, _)
SeqsUpTo(S, n) ==
    IF n = 0 THEN {<<>>}
    ELSE LET shorter == SeqsUpTo(S, n - 1)
         IN  shorter \cup {Append(s, x) : s \in {y \in shorter : Len(y) = n - 1},
                                          x \in S}

DedupInit ==
    /\ \E words \in SeqsUpTo({<<"a">>, <<"b">>}, MaxTrail) :
          /\ files = [d \in Dates |-> None]
          /\ timestamps = TRUE
          /\ current_date = None
          /\ last_time = None
          /\ last_trailing_words = words
          /\ md_op = "new"
          /\ md_segment = <<>>
          /\ md_text = <<>>
          /\ md_entry = <<>>
          /\ md_result = "ok"
                /\ headed = None
          /\ md_calls = 0
    /\ OrdStart /\ backlog = 0 /\ overflow_checks = FALSE
    /\ PipeStart /\ udp_alive = FALSE
    /\ AccStart /\ CodecStart(Filled(1, 32)) /\ ConvStart /\ UdpStart /\ WorkerStart

DedupNext == \E text \in SeqsUpTo(Chars, MaxText) : DeduplicateOverlap(text)

DedupSpec == DedupInit /\ [][DedupNext]_vars

\* The writer of one run of the program and of runs that follow it on the
\* same directory.
Timestamps == [date : Dates, time : Minutes] \ {[date |-> "2024-01-02", time |-> "10:01"]}

\* What the STT worker hands over: a segment and the speaker's name.
Texts ==
    {[text |-> <<"a", " ", "B">>, speaker |-> None],
     [text |-> <<"B", " ", "a">>, speaker |-> Some("Erik")]}

Segments ==
    {[segment |-> [timestamp |-> ts, text |-> x.text], speaker |-> x.speaker] :
        ts \in Timestamps, x \in Texts}

WriterInit ==
    /\ \E ts \in BOOLEAN : MarkdownWriter(ts, [d \in Dates |-> None])
    /\ OrdStart /\ backlog = 0 /\ overflow_checks = FALSE
    /\ PipeStart /\ udp_alive = FALSE
    /\ AccStart /\ CodecStart(Filled(1, 32)) /\ ConvStart /\ UdpStart /\ WorkerStart

WriterNext ==
    \/ \E s \in Segments : WriteSegment(s.segment, s.speaker)
    \/ Restart

WriterSpec == WriterInit /\ [][WriterNext]_vars

(***************************************************************************)
(* Claims about the PacketOrderer (checked under OrdSpec).                 *)
(***************************************************************************)
\* A step of OrdSpec that is one insert call.
InsertCall == ninserts' = ninserts + 1

\* The first serial at or after k that is not a key of buf, as an integer
\* (U64_MAX + 1 when the run reaches the top of the type).
RECURSIVE RunEnd(_, _)
RunEnd(buf, k) == IF k \in DOMAIN buf THEN RunEnd(buf, k + 1) ELSE k

RunMsgs(buf, from, to) == [i \in 1..(to - from) |-> buf[from + i - 1]]

Restrict(buf, keys) == [k \in DOMAIN buf \ keys |-> buf[k]]

\* C1: the concatenation of all lists returned by insert is strictly
\* increasing in serial (so no serial is emitted twice).
C1_EmittedStrictlyIncreasing ==
    \A i, j \in 1..Len(emitted) :
        i < j => emitted[i].serial < emitted[j].serial

\* C2: every inserted serial (>= 0, the initial expected serial) that is no
\* longer waiting in the buffer is in the outputs exactly once or was
\* skipped by a backlog-overflow advance.
C2_EmittedOnceOrSkipped ==
    ~panicked =>
        \A s \in inserted :
            \/ s \in DOMAIN buffer
            \/ s \in skipped
            \/ Cardinality({i \in 1..Len(emitted) : emitted[i].serial = s}) = 1

\* C3: an insert of a future serial that leaves more than B entries in the
\* buffer moves expected_serial to the smallest buffered serial and past
\* the run of consecutive buffered serials starting there, removes that run
\* without emitting it, and returns the empty list.
C3_OverflowAdvance ==
    [][ LET b == MapInsert(buffer, lastMsg'.serial, lastMsg')
            oldest == FirstKey(b)
            end == RunEnd(b, oldest)
        IN  (/\ InsertCall
             /\ lastMsg'.serial > expected_serial
             /\ Cardinality(DOMAIN b) > backlog)
            => /\ ~panicked'
               /\ expected_serial' = end
               /\ buffer' = Restrict(b, oldest..(end - 1))
               /\ lastRet' = <<>>
               /\ emitted' = emitted ]_vars

\* C4: insert returns a non-empty list exactly when the inserted serial
\* equals expected_serial; the list is the inserted message followed by the
\* maximal run of buffered messages with consecutive serials, these leave
\* the buffer, and expected_serial becomes the last emitted serial + 1.
\* Hence a permutation of 0..n-1 with B >= n emits nothing until serial 0
\* arrives and 0..n-1 in order overall.
C4_ReadyRun ==
    /\ [][ InsertCall =>
            LET s == lastMsg'.serial
                end == RunEnd(buffer, s + 1)
            IN  /\ (lastRet' # <<>>) <=> (s = expected_serial)
                /\ s = expected_serial =>
                      /\ lastRet' = <<lastMsg'>> \o RunMsgs(buffer, s + 1, end)
                      /\ buffer' = Restrict(buffer, (s + 1)..(end - 1))
                      /\ expected_serial' = end ]_vars
    /\ [](\A n \in 1..MaxInserts :
            (ninserts = n /\ inserted = 0..(n - 1) /\ backlog >= n)
                => SerialsOf(emitted) = [i \in 1..n |-> i - 1])
    /\ []((0 \notin inserted /\ backlog >= ninserts) => emitted = <<>>)

\* C5: insert of a message whose serial is below expected_serial returns
\* the empty list and leaves expected_serial and the buffer unchanged.
C5_OldDiscarded ==
    [][ (InsertCall /\ lastMsg'.serial < expected_serial)
            => /\ lastRet' = <<>>
               /\ ~panicked'
               /\ expected_serial' = expected_serial
               /\ buffer' = buffer ]_vars

\* A discarded old message, with other messages waiting in the buffer.
C5_Witness ==
    /\ ninserts > 0
    /\ lastMsg.serial < prevExpected
    /\ lastRet = <<>>
    /\ DOMAIN buffer # {}
    /\ buffer = prevBuffer

\* C6: expected_serial never decreases, over the whole range of the serial
\* type, u64::MAX included.
C6_ExpectedNeverDecreases ==
    [][expected_serial' >= expected_serial]_vars

(***************************************************************************)
(* Claims about the record pipeline (checked under PipeSpec, the           *)
(* liveness claim under FairPipeSpec).                                     *)
(***************************************************************************)
Pos(seq, x) == CHOOSE i \in 1..Len(seq) : seq[i] = x

InOrderOf(sub, seq) ==
    /\ \A i \in 1..Len(sub) : \E k \in 1..Len(seq) : seq[k] = sub[i]
    /\ \A i, j \in 1..Len(sub) : i < j => Pos(seq, sub[i]) < Pos(seq, sub[j])

NoRepeats(seq) == \A i, j \in 1..Len(seq) : i # j => seq[i] # seq[j]

\* C7: after the shutdown signal run_recording eventually returns, and when
\* it returns (the STT engine having started) every chunk that entered the
\* chunks channel, the final flush included, was handed to the STT worker
\* and every bundle the worker produced was passed to the writer.
C7_ShutdownDrainsAndReturns ==
    /\ (shutdown_sig /\ sttPc # "failed") ~> (mainPc = "returned")
    /\ []((mainPc = "returned" /\ shutdown_sig /\ sttPc # "failed")
            => /\ transcribed = entered
               /\ received = produced)

\* C8: in the main loop there is no state in which the main task waits in
\* stt_tx.send on a full STT input channel while the STT worker waits in
\* result_tx.blocking_send on a full segments channel.
C8_NoMutualSendWait ==
    ~(/\ mainPc = "stt_send"
      /\ stt_rx_alive
      /\ Len(stt) >= SttCap
      /\ sttPc = "send"
      /\ Len(results) >= ResCap)

C10_CallbackNeverBlocks ==
    /\ [](Len(raw) <= RawCap)
    /\ [](stream_alive => ENABLED CaptureCallback)
    /\ [][(cbTick' # cbTick /\ Len(raw) >= RawCap) => raw' = raw]_vars
    /\ [][(cbTick' # cbTick /\ Len(raw) < RawCap) => raw' = Append(raw, cbTick)]_vars

\* The channel is full and the last callback found it full: the newest
\* buffer in the channel was delivered an odd number of callbacks ago.
C10_Witness ==
    /\ stream_alive
    /\ Len(raw) = RawCap
    /\ raw[RawCap] = cbTick


(***************************************************************************)
(* Claims about the ChunkAccumulator (checked under AccSpec).              *)
(***************************************************************************)
\* The chunks the caller got from the last two calls that returned any, in
\* the order they were returned.
LastChunks == acc_prev \o acc_ret

\* The same, when all of them came from feed.
LastFeedChunks == (IF acc_prev_op = "feed" THEN acc_prev ELSE <<>>) \o acc_ret

LastOf(s, n) == SubSeq(s, Len(s) - n + 1, Len(s))

FirstOf(s, n) == SubSeq(s, 1, n)

C12_OverlapShared ==
    acc_op = "feed" =>
        \A i \in 1 .. Len(LastFeedChunks) - 1 :
            LET a == LastFeedChunks[i]
                b == LastFeedChunks[i + 1]
            IN  /\ LastOf(a.samples_f32, overlap_samples)
                      = FirstOf(b.samples_f32, overlap_samples)
                /\ LastOf(a.samples_i16, overlap_samples)
                      = FirstOf(b.samples_i16, overlap_samples)

\* Three consecutive chunks with a non-empty overlap: one from an earlier
\* feed call, two from the last one.
C12_Witness ==
    /\ acc_op = "feed" /\ acc_prev_op = "feed" /\ overlap_samples > 0
    /\ Len(acc_prev) = 1 /\ Len(acc_ret) = 2

\* C13: the chunks the accumulator returns carry strictly increasing
\* timestamps, two chunks of one feed call included.
C13_TimestampsStrictlyIncrease ==
    \A i \in 1 .. Len(LastChunks) - 1 :
        LastChunks[i].timestamp < LastChunks[i + 1].timestamp

\* C14: the timestamp of every chunk returned by feed or flush is the
\* reading of the clock when the first sample of the chunk was appended to the
\* buffer.
C14_TimestampOfFirstSample ==
    \A i \in 1 .. Len(acc_ret) : acc_ret[i].timestamp = acc_ret_at[i]

\* C15: flush returns None on an empty buffer and otherwise one chunk with
\* the buffered samples in their order; it leaves the buffer empty, and a
\* flush right after a flush returns None.
C15_Flush ==
    [][acc_op' = "flush" =>
          /\ acc_buffer' = <<>>
          /\ acc_buffer = <<>> => acc_ret' = <<>>
          /\ acc_buffer # <<>> =>
                /\ Len(acc_ret') = 1
                /\ acc_ret'[1].samples_f32 = acc_buffer
          /\ acc_op = "flush" => acc_ret' = <<>>]_vars

\* A flush returned a short remainder after feed had returned chunks.
C15_Witness ==
    /\ acc_op = "flush" /\ n_chunks > 0
    /\ Len(acc_ret) = 1
    /\ Len(acc_ret[1].samples_f32) < chunk_samples
    /\ acc_buffer = <<>>


(***************************************************************************)
(* Claims about AudioChunk::from_samples (checked under ConvSpec).         *)
(***************************************************************************)
Abs(x) == IF x < 0 THEN 0 - x ELSE x

\* The exact product clamp(s, -1, 1) * 32767, in units of 1 / F32_DEN.
Scaled(s) == clamp(s) * I16_MAX

\* Inputs beyond +1 and -1 give +32767 and -32767.
ClampsToMax(s, v) ==
    /\ s > F32_DEN => v = I16_MAX
    /\ s < 0 - F32_DEN => v = 0 - I16_MAX

\* C17 as stated: every i16 sample is clamp(s, -1, 1) * 32767 rounded to the
\* nearest integer, halves away from zero (0.5 gives 16384), and inputs
\* beyond +-1 give +-32767.
C17_RoundsToNearest ==
    conv_out # <<>> =>
        \A i \in 1 .. Len(conv_in) :
            LET v == conv_out[1].samples_i16[i]
                d == Abs(v * F32_DEN - Scaled(conv_in[i]))
            IN  /\ 2 * d <= F32_DEN
                /\ 2 * d = F32_DEN => Abs(v * F32_DEN) > Abs(Scaled(conv_in[i]))
                /\ ClampsToMax(conv_in[i], v)

\* C17 as amended: every i16 sample is clamp(s, -1, 1) * 32767 with its
\* fraction dropped (rounded toward zero), and inputs beyond +-1 give
\* +-32767.
C17_DropsFraction ==
    conv_out # <<>> =>
        \A i \in 1 .. Len(conv_in) :
            LET v == conv_out[1].samples_i16[i]
                x == Scaled(conv_in[i])
            IN  /\ Abs(v * F32_DEN) <= Abs(x)
                /\ Abs(x) < Abs(v * F32_DEN) + F32_DEN
                /\ (x >= 0 => v >= 0) /\ (x <= 0 => v <= 0)
                /\ ClampsToMax(conv_in[i], v)

\* 0.5 and -1.5 were converted, to 16383 and -32767.
C17_Witness ==
    /\ conv_in = <<2, 0 - 6>>
    /\ conv_out # <<>>
    /\ conv_out[1].samples_i16 = <<16383, 0 - 32767>>

(***************************************************************************)
(* Claims about the wire format (checked under CodecSpec).                 *)
(***************************************************************************)
\* C18: decoding a packet with the key it was encoded with returns the
\* serial, the message type and the data that encode_packet was given, for
\* every serial, each of the four types and every data, the empty one
\* included.
C18_RoundTrip ==
    (decoded # <<>> /\ decoded_key = packet_key) =>
        (decoded[1].ok /\ decoded[1].val = packet_of[1])

\* A packet with empty data and the largest serial was decoded with its key.
C18_Witness ==
    /\ decoded # <<>> /\ decoded_key = packet_key
    /\ packet_of[1].data = <<>> /\ packet_of[1].serial = U64_MAX
    /\ Len(pkt) = MIN_PACKET_SIZE

\* C19: decode_packet succeeds only under the key the packet was sealed
\* with; once update_key has changed the key, packets sealed before fail and
\* packets sealed afterwards decode.
C19_WrongKeyFails ==
    decoded # <<>> =>
        /\ decoded[1].ok => decoded_key = packet_key
        /\ (rekeyed /\ decoded_key = packet_key) => decoded[1].ok

\* A packet sealed before update_key was refused after it.
C19_Witness ==
    /\ decoded # <<>> /\ rekeyed
    /\ decoded_key # packet_key
    /\ ~decoded[1].ok


(***************************************************************************)
(* Claims about the datagram receiver (checked under UdpSpec).             *)
(***************************************************************************)
\* The samples of a list of chunks, in order.
RECURSIVE SamplesOfChunks(_)
SamplesOfChunks(cs) ==
    IF cs = <<>> THEN <<>> ELSE Head(cs).samples_i16 \o SamplesOfChunks(Tail(cs))

\* C20: while the receiver of the chunks exists, a handler that passes
\* messages of the orderer to process_message returns to the receive loop
\* with fewer than SAMPLE_RATE samples carried over; every chunk it put into
\* the channel has SAMPLE_RATE samples, and these chunks followed by the new
\* carryover are the old carryover followed by the samples of the AudioData
\* bodies it processed, in the orderer's order.  (Step by step this is the
\* claim's equation between all emitted chunks and all processed bodies.)
C20_CarryoverAssembles ==
    [][(udp_op' = "packet" /\ udp_kind' = "ordered" /\ sink_open) =>
          /\ udp_pc' = "recv"
          /\ Len(audio_buffer') < SAMPLE_RATE
          /\ \A i \in 1 .. Len(udp_sent') :
                Len(udp_sent'[i].samples_i16) = SAMPLE_RATE
          /\ SamplesOfChunks(udp_sent') \o audio_buffer'
                = audio_buffer \o udp_samples']_vars


(***************************************************************************)
(* Claims about every AudioChunk (checked under ChunkSpec).                *)
(***************************************************************************)
\* The two sample vectors have one length, and duration_secs is that length
\* divided by the sample rate.
WellFormed(c) ==
    /\ Len(c.samples_i16) = Len(c.samples_f32)
    /\ c.duration_secs.num * SAMPLE_RATE = Len(c.samples_f32) * c.duration_secs.den

\* C16: every chunk that feed or flush returns (the audio thread sends each
\* of them, audio/mod.rs:70 and :79) and every chunk the datagram receiver
\* builds to send, full or flushed, has samples_i16 and samples_f32 of
\* equal length and a duration_secs of that length divided by the sample
\* rate.
C16_ChunksWellFormed ==
    /\ \A i \in 1 .. Len(acc_ret) : WellFormed(acc_ret[i])
    /\ \A i \in 1 .. Len(udp_built) : WellFormed(udp_built[i])

\* flush returned a remainder that is not a whole number of seconds, after
\* feed had returned full chunks.
C16_Witness ==
    /\ acc_op = "flush" /\ n_chunks > 0
    /\ Len(acc_ret) = 1
    /\ Len(acc_ret[1].samples_f32) % SAMPLE_RATE # 0
    /\ acc_ret[1].duration_secs = Quot(Len(acc_ret[1].samples_i16), SAMPLE_RATE)


(***************************************************************************)
(* Claims about the datagram receiver (checked under UdpSpec).             *)
(***************************************************************************)
\* C21: the handler of an EndOfStream packet emits the whole carryover as
\* one chunk when it is not empty and nothing when it is, leaves the
\* carryover empty, and the server stays in its receive loop.
C21_EndOfStreamFlushes ==
    [][(udp_op' = "packet" /\ udp_kind' = "eos") =>
          /\ audio_buffer' = <<>>
          /\ udp_pc' = "recv"
          /\ IF audio_buffer = <<>> THEN udp_sent' = <<>>
             ELSE /\ Len(udp_sent') = 1
                  /\ udp_sent'[1].samples_i16 = audio_buffer]_vars

\* C22: a PassphraseChangeRequest that decoded with a body of 32 bytes makes
\* the body the key of the context every later datagram is decoded with,
\* and the ack carries the serial of the request, decodes under the new
\* key and, when the key changed, not under the old one; a request with a
\* body of another length changes no key and sends no ack.  No other
\* datagram changes the key, and every datagram that is handled was sealed
\* with the key the server held when it arrived.
C22_PassphraseChange ==
    [][/\ (udp_op' = "packet" /\ udp_kind' = "passphrase") =>
             LET msg == udp_request'[1]
             IN  IF Len(msg.data) = 32
                 THEN /\ udp_crypto' = CryptoContext(msg.data)
                      /\ Len(udp_ack') = 1
                      /\ LET ack == decode_packet(udp_ack'[1], udp_crypto')
                         IN  /\ ack.ok
                             /\ ack.val = [serial |-> msg.serial,
                                           message_type |-> "PassphraseChangeAck",
                                           data |-> <<>>]
                      /\ msg.data # udp_crypto.key_bytes =>
                            ~decode_packet(udp_ack'[1], udp_crypto).ok
                 ELSE udp_crypto' = udp_crypto /\ udp_ack' = <<>>
       /\ (udp_op' = "packet" /\ udp_kind' # "passphrase") =>
             udp_crypto' = udp_crypto
       /\ (udp_op' = "packet" /\ udp_kind' # "undecodable") =>
             udp_sealed_with' = <<udp_crypto.key_bytes>>]_vars

\* A request changed the key to another one and its ack went out.
C22_Witness ==
    /\ udp_kind = "passphrase" /\ udp_ack # <<>>
    /\ udp_request[1].serial = 1
    /\ udp_crypto = CryptoContext(udp_request[1].data)
    /\ udp_crypto # CryptoContext(Filled(1, 32))

\* C23: the handler of a datagram that does not decode changes neither the
\* key nor the orderer nor the carryover, emits no chunk, calls the
\* firewall block exactly if a manager is configured, and the server stays
\* in its receive loop.
C23_UndecodableDropped ==
    [][(udp_op' = "packet" /\ udp_kind' = "undecodable") =>
          /\ UNCHANGED <<udp_crypto, udp_expected, udp_buffer, audio_buffer>>
          /\ udp_built' = <<>> /\ udp_sent' = <<>> /\ udp_ack' = <<>>
          /\ udp_blocked' = firewall
          /\ udp_pc' = "recv"]_vars

\* A datagram was dropped, with a firewall manager configured, by a server
\* that held a carryover, had delivered a message and had changed its key.
C23_Witness ==
    /\ udp_kind = "undecodable" /\ udp_blocked
    /\ audio_buffer # <<>> /\ udp_expected = 1
    /\ udp_crypto # CryptoContext(Filled(1, 32))


(***************************************************************************)
(* Claims about startup failures (checked under PipeSpec).                 *)
(***************************************************************************)
\* What run_recording returned: past the `?` of recording.rs:112 its only
\* return is the Ok(()) of recording.rs:188.
run_recording_result == IF mainPc = "returned" THEN <<Ok(<<>>)>> ELSE <<>>

\* main (main.rs:174-178): exit(1) on Err, the end of main otherwise.
exit_status ==
    IF run_recording_result = <<>> THEN <<>>
    ELSE IF run_recording_result[1].ok THEN <<0>> ELSE <<1>>

\* C30: when stt::create_engine has failed, run_recording returns an error
\* and the process exits with a non-zero status.
C30_SttFailureExitsNonZero ==
    (sttPc = "failed" /\ exit_status # <<>>) =>
        (~run_recording_result[1].ok /\ exit_status # <<0>>)


(***************************************************************************)
(* Claims about deduplicate_overlap (checked under DedupSpec).             *)
(***************************************************************************)
\* The overlap lengths k of 1 .. min(|T|, |N|) for which the last k words
\* of T are the lowercased first k words of N.
Overlaps(T, N) ==
    {k \in 1 .. Min(Len(T), Len(N)) :
        SubSeq(T, Len(T) - k + 1, Len(T)) = [i \in 1 .. k |-> to_lowercase(N[i])]}

Largest(S) == CHOOSE k \in S : \A j \in S : j <= k

\* C24: with T the stored trailing words and N the words of the text,
\* deduplicate_overlap returns the text unchanged if T is empty, the empty
\* string if N is empty, the text unchanged if no overlap length matches,
\* and otherwise the words of N after the largest matching overlap length,
\* joined by single spaces.
C24_LongestOverlapRemoved ==
    md_op = "dedup" =>
        LET T == last_trailing_words
            text == md_segment[1]
            N == split_whitespace(text)
        IN  md_text = Some(IF T = <<>> THEN text
                           ELSE IF N = <<>> THEN <<>>
                           ELSE IF Overlaps(T, N) = {} THEN text
                           ELSE join(SubSeq(N, Largest(Overlaps(T, N)) + 1, Len(N))))

\* Two overlap lengths matched and words remained after the longer one.
C24_Witness ==
    /\ md_op = "dedup"
    /\ Cardinality(Overlaps(last_trailing_words, split_whitespace(md_segment[1]))) = 2
    /\ md_text = Some(<<"b">>)
    /\ md_text # Some(md_segment[1])

(***************************************************************************)
(* Claims about the markdown writer (checked under WriterSpec).            *)
(***************************************************************************)
IsPrefix(s, u) == Len(s) <= Len(u) /\ SubSeq(u, 1, Len(s)) = s

Content(fs, d) == IF fs[d] = None THEN <<>> ELSE fs[d][1]

\* C25: a write_segment call for a segment of the writer's current date
\* whose words are, lowercased, a suffix of the stored trailing words
\* changes no file and leaves last_time and the trailing words as they were.
C25_FullOverlapWritesNothing ==
    [][md_op' = "write" =>
          LET segment == md_segment'[1].segment
              N == split_whitespace(segment.text)
              T == last_trailing_words
          IN  (/\ current_date = Some(segment.timestamp.date)
               /\ N # <<>>
               /\ Len(N) <= Len(T)
               /\ SubSeq(T, Len(T) - Len(N) + 1, Len(T))
                     = [i \in 1 .. Len(N) |-> to_lowercase(N[i])])
              => UNCHANGED <<files, last_time, last_trailing_words>>]_vars

\* A call whose text, capitals aside, repeated the end of what was written
\* before, with a time heading already emitted.
C25_Witness ==
    /\ md_op = "write" /\ md_result = "ok"
    /\ md_segment[1].segment.text = <<"a", " ", "B">>
    /\ md_text = Some(<<>>)
    /\ last_trailing_words = <<<<"a">>, <<"b">>>>
    /\ last_time # None

\* C26: every daily file begins with the day header of its date and holds
\* no second day header.
C26_OneDayHeader ==
    \A d \in Dates :
        files[d] # None =>
            /\ IsPrefix(day_header(d), files[d][1])
            /\ \A i \in 2 .. Len(files[d][1]) : files[d][1][i] # "# "

\* C27: with timestamps enabled a call that appends its entry puts a time
\* heading before it exactly when the minute of the segment is not the
\* minute of the last heading emitted since the date last changed; with
\* timestamps disabled no file ever holds a time heading.
C27_HeadingPerMinute ==
    [][/\ (md_op' = "write" /\ md_result' = "ok" /\ md_entry' # <<>>) =>
             LET ts == md_segment'[1].segment.timestamp
                 last_emitted == IF current_date = Some(ts.date) THEN headed ELSE None
             IN  (md_entry'[1] = "## ")
                    <=> (timestamps /\ last_emitted # Some(ts.time))
       /\ ~timestamps' =>
             \A d \in Dates : \A i \in 1 .. Len(Content(files', d)) :
                 Content(files', d)[i] # "## "]_vars

\* The directory once the call has written the day header of a new file.
WithHeader ==
    LET d == md_segment'[1].segment.timestamp.date
    IN  IF current_date # Some(d) /\ files[d] = None
        THEN [files EXCEPT ![d] = Some(day_header(d))] ELSE files

\* What a call added to the daily file of date that held before, after the
\* time heading if it added one.
AddedLine(fs, before, date) ==
    LET added == SubSeq(Content(fs, date), Len(Content(before, date)) + 1,
                        Len(Content(fs, date)))
    IN  IF added # <<>> /\ added[1] = "## " THEN SubSeq(added, 5, Len(added))
        ELSE added

SpeakerTag(speaker) == IF speaker = None THEN <<>> ELSE <<"**", speaker[1], ":** ">>

\* C28 as stated: the entry a successful call appends is the deduplicated
\* text, after the speaker tag if a speaker is given, followed by one line
\* end and nothing else.
C28_EntrySingleNewline ==
    [][(md_op' = "write" /\ md_result' = "ok" /\ md_entry' # <<>>) =>
          /\ IsPrefix(Content(WithHeader, md_segment'[1].segment.timestamp.date),
                      Content(files', md_segment'[1].segment.timestamp.date))
          /\ AddedLine(files', WithHeader, md_segment'[1].segment.timestamp.date)
                = SpeakerTag(md_segment'[1].speaker) \o md_text'[1] \o <<"\n">>]_vars

\* C28, amended: the entry a successful call appends is the deduplicated
\* text, after the speaker tag if a speaker is given, followed by two line
\* ends (the end of the line and one blank line) and nothing else.
C28_EntryBlankLine ==
    [][(md_op' = "write" /\ md_result' = "ok" /\ md_entry' # <<>>) =>
          /\ IsPrefix(Content(WithHeader, md_segment'[1].segment.timestamp.date),
                      Content(files', md_segment'[1].segment.timestamp.date))
          /\ AddedLine(files', WithHeader, md_segment'[1].segment.timestamp.date)
                = SpeakerTag(md_segment'[1].speaker) \o md_text'[1]
                    \o <<"\n", "\n">>]_vars

\* A call with a speaker appended a text that lost its first word to the
\* overlap, without a time heading.
C28_Witness ==
    /\ md_op = "write" /\ md_result = "ok"
    /\ md_segment[1].speaker = Some("Erik")
    /\ md_segment[1].segment.text = <<"B", " ", "a">>
    /\ md_text = Some(<<"a">>)
    /\ md_entry = <<"**", "Erik", ":** ", "a", "\n", "\n">>

\* C29: no step of the writer, a failed call included, removes a daily
\* file or changes what it held: the old content is a prefix of the new.
C29_AppendOnly ==
    [][\A d \in Dates :
          files[d] # None =>
             /\ files'[d] # None
             /\ IsPrefix(files[d][1], files'[d][1])]_vars

\* The third call, on the first date again after a call on the other date,
\* failed in the middle of its write.
C29_Witness ==
    /\ md_op = "write" /\ md_result = "err" /\ md_calls = 3
    /\ md_entry # <<>>
    /\ md_segment[1].segment.timestamp.date = "2024-01-01"
    /\ files["2024-01-02"] # None
    /\ Len(files["2024-01-01"][1]) > 4
    /\ files["2024-01-01"][1][Len(files["2024-01-01"][1])] # "\n"

(***************************************************************************)
(* The bound of the reorder buffer                                         *)
(***************************************************************************)
\* C36: after every insert, for every backlog B >= 0 (0 included), the
\* buffer holds at most B messages and every buffered serial is greater
\* than expected_serial.
C36_BufferBounded ==
    /\ Cardinality(DOMAIN buffer) <= backlog
    /\ \A s \in DOMAIN buffer : s > expected_serial

\* With backlog 0 a future packet was inserted: it went through the buffer
\* and drop_oldest moved expected_serial past it.
C36_Witness ==
    /\ backlog = 0
    /\ ninserts > 0
    /\ lastMsg.serial > prevExpected
    /\ expected_serial = lastMsg.serial + 1
    /\ buffer = EmptyMap

(***************************************************************************)
(* The datagram receiver as an asynchronous task                           *)
(***************************************************************************)
\* C33: the datagram receiver, polled as a task of the runtime, never calls
\* a blocking send (every chunk it builds is handed to blocking_send), and
\* its task is never aborted.
C33_NoBlockingSendInTask ==
    in_runtime => (udp_built = <<>> /\ udp_pc # "panicked")

(***************************************************************************)
(* The writer after a failed append                                        *)
(***************************************************************************)
\* C40: a write_segment call that fails while it opens or appends to the
\* daily file leaves the current date, the last emitted minute and the
\* trailing words of the writer as they were before the call.
C40_FailedAppendKeepsState ==
    [][(md_op' = "write" /\ md_result' = "err" /\ md_entry' # <<>>) =>
          UNCHANGED <<current_date, last_time, last_trailing_words>>]_vars

(***************************************************************************)
(* What decode_packet accepts                                              *)
(***************************************************************************)
\* C38: every message decode_packet accepts under a key carries exactly
\* the serial, the type and the data that an encode_packet call under that
\* key was given; a datagram whose serial was altered is rejected.
C38_AcceptedWasEncoded ==
    (decoded # <<>> /\ decoded[1].ok) =>
        (decoded_key = packet_key /\ decoded[1].val = packet_of[1])

(***************************************************************************)
(* Datagrams delivered again                                               *)
(***************************************************************************)
\* C37: handling a datagram that is byte for byte one the server has
\* handled before, of whatever type and whether or not the key was changed
\* in between, changes neither the key nor the orderer nor the carryover,
\* builds no chunk and sends no ack.
C37_ReplayIgnored ==
    [][Redeliver =>
          /\ UNCHANGED <<udp_crypto, udp_expected, udp_buffer, audio_buffer>>
          /\ udp_built' = <<>>
          /\ udp_ack' = <<>>]_vars

(***************************************************************************)
(* A second run of the sender                                              *)
(***************************************************************************)
\* C39: after one complete run of the sender (AudioData with serials
\* 0..n-1, then EndOfStream) the first AudioData datagram of a second run,
\* which has serial 0 again, passes the orderer of a receiver that is still
\* running, and its samples are given to process_message.
C39_SecondRunAccepted ==
    [][(/\ snd_runs = 2 /\ snd_pc = "audio" /\ snd_serial = 0
        /\ snd_serial' = 1 /\ udp_pc = "recv") =>
          /\ udp_kind' = "ordered"
          /\ udp_samples' = samples_of(next_chunk(snd_data))]_vars

(***************************************************************************)
(* feed under every configuration                                          *)
(***************************************************************************)
\* C35: for every chunk_duration_secs and overlap_secs the configuration
\* loader accepts, an overlap not below the chunk duration and a chunk
\* duration of 0 included, every feed call returns: it neither panics in
\* its arithmetic or its drain nor stays in its loop.
C35_FeedTerminates ==
    acc_op \notin {"panicked", "diverged"}

(***************************************************************************)
(* Claims about the speaker identifier (checked under IdentifySpec and     *)
(* SaveSpec).                                                              *)
(***************************************************************************)
\* The scores of the call that are numbers, as <<embedding, profile>> pairs.
Scored ==
    {p \in (1 .. Len(sp_embeddings)) \X (1 .. Len(sp_before)) :
        sp_embeddings[p[1]].ok /\ sp_embeddings[p[1]].scores[p[2]] # NaN}

ScoreAt(p) == sp_embeddings[p[1]].scores[p[2]]

RECURSIVE Unsaved(_)
Unsaved(i) ==
    IF i = 0 THEN 0
    ELSE (profiles[i].embedding - profiles_dir[i]) + Unsaved(i - 1)

\* C34: after any sequence of identify calls (and flushes) fewer than
\* SAVE_INTERVAL updates of the profiles are in memory but not on disk: the
\* counter is the number of those updates and stays below SAVE_INTERVAL,
\* and after a flush there is none.
C34_UnsavedBelowInterval ==
    sp_op # "none" =>
        /\ Unsaved(Len(profiles)) < SAVE_INTERVAL
        /\ updates_since_save < SAVE_INTERVAL
        /\ sp_op = "identify" => Unsaved(Len(profiles)) = updates_since_save
        /\ sp_op = "flush" => Unsaved(Len(profiles)) = 0

(***************************************************************************)
(* C32                                                                     *)
(***************************************************************************)
\* C32: every TranscriptionSegment a backend's transcribe returns has a text
\* that is trimmed and not empty.
C32_SegmentsTrimmedNonEmpty ==
    tx_op = "transcribe" /\ tx_segments.ok =>
        \A i \in 1 .. Len(tx_segments.segments) :
            LET text == tx_segments.segments[i].text
            IN  Len(text) > 0 /\ trim(text) = text

=============================================================================
